---- MODULE Spec2Model ----
(***************************************************************************)
(* Pay-per-request protocol engine of evstack/x402:                        *)
(*   - EvolveFacilitatorClient (verify / settle / usedTxHashes),           *)
(*   - the payment middleware driving 402 -> verify -> handler -> settle,  *)
(*   - the simulator Agent's nonce management (submitPayment).             *)
(* Two specifications share the module: Spec (server side) and SpecAgent   *)
(* (one agent with concurrent workers against a ledger account).           *)
(***************************************************************************)
EXTENDS Integers, Sequences, FiniteSets, TLC

(***************************************************************************)
(* Bounds of the model                                                     *)
(***************************************************************************)
MaxReqs == 2
MaxWorkers == 2       \* concurrent workers of the agent (MAX_INFLIGHT in the code is 5)
MaxPayments == 4      \* payments the agent issues in total
MaxStartNonce == 1    \* the account's transaction count at start is 0..MaxStartNonce
MaxAgents == 2        \* agents of the pool (config.agentCount is 1..MaxAgents)
MaxLoops == 1         \* worker loops per agent of the pool (MAX_INFLIGHT in the code is 5)
MaxResults == 2       \* requests the pool's agents begin in total
MaxEmits == 1510      \* events emitted in a run of the emitter alone
MaxRecords == 3       \* results recorded when the throughput is looked at
MaxTicks == 3         \* half windows the clock advances when the throughput is looked at
MaxDelivered == 510   \* events delivered to the dashboard
MaxPushes == 3        \* results recorded on top of a filled latency buffer
MaxSamples == 25      \* latencies held when a percentile is taken
MaxSubscribers == 1   \* WebSocket clients of the event stream
MaxSweeps == 2         \* minutes the sweep timer is followed with nothing left to age
MaxBusEmits == 102    \* events emitted while clients come and go

(***************************************************************************)
(* Program constants                                                       *)
(***************************************************************************)
TX_HASH_TTL_MS == 3600000
EVICTION_AGE_MS == 300000
SweepIntervalMs == 60000
DefaultFunding == 1000000
TOKEN_ACCOUNT_CANDIDATES == <<65535, 65537>>
TPS_WINDOW_MS == 1000
LatenciesCap == 10000
LatenciesKept == 5000
MAX_LATENCY_SAMPLES == 2000
EventBufferSize == 500
HistorySize == 100
maxLogSize == 1000
X402Version == 2
MinCalldataHexLen == 106
AmountHexOffset == 74

NETWORK == "evolve:1"
TREASURY_ADDRESS == "0xTreasury"

Hashes == {"h1", "h2"}
\* payload.txHash as it can arrive: a hash, or "" (falsy: missing)
ProofHashes == Hashes \cup {""}

Reqs == 1..MaxReqs

\* TRANSFORM_ROUTES: "METHOD /path" -> price
PriceOf(route) ==
    CASE route = "POST /api/transform/echo" -> 100
      [] route = "POST /api/transform/hash" -> 200
      [] OTHER -> 0

\* Variant: the health route put under payment as well
ProtectedRoutesAll == {"POST /api/transform/echo", "POST /api/transform/hash", "GET /health"}

ProtectedRoutes == {"POST /api/transform/echo", "POST /api/transform/hash"}
UnprotectedRoutes == {"GET /health"}
Routes == ProtectedRoutes \cup UnprotectedRoutes

(***************************************************************************)
(* Calldata encoding (simulator/src/evolve-utils.ts) and its decoding in   *)
(* verify.  Calldata is a sequence of bytes; the hex string the code       *)
(* handles is "0x" followed by two characters per byte.                    *)
(***************************************************************************)
RECURSIVE u128ToLeBytesFrom(_, _)
u128ToLeBytesFrom(v, n) ==
    IF n = 0 THEN <<>> ELSE <<v % 256>> \o u128ToLeBytesFrom(v \div 256, n - 1)

u128ToLeBytes(value) == u128ToLeBytesFrom(value, 16)

Selector == <<180, 131, 175, 211>>

\* 4-byte selector + 16-byte LE recipient + 16-byte LE amount = 36 bytes
buildTransferData(toAccountId, amount) ==
    Selector \o u128ToLeBytes(toAccountId) \o u128ToLeBytes(amount)

\* The layout verify documents: selector + 32-byte AccountId + 16-byte LE amount
TokenTransferCalldata(toAccountId, amount) ==
    Selector \o u128ToLeBytes(toAccountId) \o u128ToLeBytes(0) \o u128ToLeBytes(amount)

HexLength(bytes) == 2 + 2 * Len(bytes)

\* amountBytes[i] for i in 0..15, read from input.slice(2 + 72); a slice past
\* the end parses to NaN, which a Uint8Array stores as 0
AmountByte(bytes, i) ==
    LET k == ((AmountHexOffset - 2) \div 2) + i + 1
    IN IF k <= Len(bytes) THEN bytes[k] ELSE 0

RECURSIVE LeFold(_, _, _)
LeFold(bytes, i, acc) ==
    IF i < 0 THEN acc ELSE LeFold(bytes, i - 1, acc * 256 + AmountByte(bytes, i))

DecodeTransferAmount(bytes) == LeFold(bytes, 15, 0)

(***************************************************************************)
(* The ledger as the facilitator sees it: per hash either no transaction,  *)
(* or a receipt (status, from) and the transaction's calldata.             *)
(***************************************************************************)
NoTx == [present |-> FALSE, status |-> "none", from |-> "none", input |-> <<>>]
LedgerTx(status, from, input) ==
    [present |-> TRUE, status |-> status, from |-> from, input |-> input]

TreasuryId == 1
PaidEcho == LedgerTx("success", "0xAlice", TokenTransferCalldata(TreasuryId, 100))
LedgerTxs ==
    { NoTx,
      LedgerTx("reverted", "0xAlice", TokenTransferCalldata(TreasuryId, 100)),
      PaidEcho,
      LedgerTx("success", "0xBob", TokenTransferCalldata(TreasuryId, 300)),
      LedgerTx("success", "0xBob", buildTransferData(TreasuryId, 100)) }

VARIABLES
    usedTxHashes,   \* EvolveFacilitatorClient.usedTxHashes: txHash -> timestamp
    now,            \* Date.now()
    ledger,         \* txHash -> transaction on the ledger
    req,            \* per request: position in the middleware and what it saw
    eventLog,       \* EventEmitter.eventLog
    verifyTimestamps, \* hono-middleware verifyTimestamps: txHash -> time of the Valid verify
    hooksRegistered   \* registerEventHooks(resourceServer) was called at start-up

serverVars == <<usedTxHashes, now, ledger, req, eventLog, verifyTimestamps,
                hooksRegistered>>

VARIABLES
    nextNonce,      \* Agent.nextNonce: <<>> is null, <<n>> is the number n
    wk,             \* per worker: position in submitPayment and its locals
    chainNonce,     \* the ledger's pending transaction count of the agent's account
    startNonce,     \* the ledger's count when the agent started
    claimed,        \* the nonces claimed so far, in claim order
    resynced,       \* a "nonce too high" resynchronisation has happened
    sendFailed,     \* some sendTransaction has thrown
    presented,      \* txHash -> number of requests that carried it as payment proof
    reported        \* the failed RequestResults that payment errors produced

agentVars == <<nextNonce, wk, chainNonce, startNonce, claimed, resynced, sendFailed,
               presented, reported>>

VARIABLES
    pool,           \* the AgentPool: its fields and the locals of initialize/start/stop
    faucetTxs,      \* the ledger's transactions sent by the faucet wallet, in order
    agentState,     \* per agent: Agent.running, Agent.activeWorkers, its worker loops
    obs             \* what an observer of the pool has seen so far

poolVars == <<pool, faucetTxs, agentState, obs>>

VARIABLES
    collector,      \* MetricsCollector: latencies, recentRequests (agentMetrics is pool.metrics)
    observed,       \* the results recorded so far and the last getPoolMetrics() output
    dash,           \* the dashboard: useEventStream's events and useMetrics' counters
    bus,            \* EventEmitter.connections and what each connection was sent
    txAgentMap      \* hono-middleware txAgentMap: txHash -> agentId

metricVars == <<collector, observed, dash, bus, txAgentMap>>

(***************************************************************************)
(* EvolveFacilitatorClient                                                 *)
(***************************************************************************)
Keys(m) == DOMAIN m

\* Variant: the sweep age of the agent-id map used in place of the TTL
evictStaleShortAge(used, t) ==
    [h \in {k \in DOMAIN used : ~(t - used[k] > EVICTION_AGE_MS)} |-> used[h]]

\* evictStale(): drop every entry with now - ts > TX_HASH_TTL_MS
evictStale(used, t) ==
    [h \in {k \in DOMAIN used : ~(t - used[k] > TX_HASH_TTL_MS)} |-> used[h]]

Invalid(reason) == [isValid |-> FALSE, invalidReason |-> reason, payer |-> ""]
Valid(payer) == [isValid |-> TRUE, invalidReason |-> "", payer |-> payer]
Pending == [isValid |-> FALSE, invalidReason |-> "", payer |-> ""]

\* Variant: no replay check
verifyPrecheckNoReplay(used, txHash) ==
    IF txHash = "" THEN Invalid("Missing transaction hash") ELSE Pending

\* verify(), synchronous prefix after evictStale: the two checks made before
\* the first ledger call.  Pending = go on to getTransactionReceipt.
verifyPrecheck(used, txHash) ==
    IF txHash = "" THEN Invalid("Missing transaction hash")
    ELSE IF txHash \in DOMAIN used THEN Invalid("Transaction already used")
    ELSE Pending

\* Variant: the receipt's status is not looked at
verifyReceiptNoStatus(receipt) ==
    IF ~receipt.present THEN Invalid("Transaction not found") ELSE Pending

\* verify(), after getTransactionReceipt resolved.  Pending = go on to
\* getTransaction.
verifyReceipt(receipt) ==
    IF ~receipt.present THEN Invalid("Transaction not found")
    ELSE IF receipt.status # "success" THEN Invalid("Transaction failed")
    ELSE Pending

\* Variant: the amount is not compared with the requirement
verifyTxNoAmount(tx, payer, requirements) ==
    IF ~tx.present THEN Invalid("Transaction data not found")
    ELSE IF HexLength(tx.input) < MinCalldataHexLen
         THEN Invalid("Transaction calldata too short for token transfer")
    ELSE Valid(payer)

\* verify(), after getTransaction resolved: calldata length, amount, result
verifyTx(tx, payer, requirements) ==
    IF ~tx.present THEN Invalid("Transaction data not found")
    ELSE IF HexLength(tx.input) < MinCalldataHexLen
         THEN Invalid("Transaction calldata too short for token transfer")
    ELSE IF DecodeTransferAmount(tx.input) < requirements.amount
         THEN Invalid("Insufficient payment")
    ELSE Valid(payer)

\* catch (err) of verify
verifyCatch == Invalid("Verification failed")

\* How a call ends: it returns a value or it throws
Returned(value) == [threw |-> FALSE, value |-> value]
Threw(err) == [threw |-> TRUE, value |-> Invalid(err)]

\* Variant: no try/catch around the ledger calls of verify
verifyOnRpcErrorRethrow == Threw("rpc error")

\* verify(): a ledger call inside the try block rejects
verifyOnRpcError == Returned(verifyCatch)

\* Variant: a Valid verify marks the hash used
usedAfterVerifyMarkValid(used, txHash, result, t) ==
    IF result.isValid
    THEN [h \in DOMAIN used \cup {txHash} |-> IF h = txHash THEN t ELSE used[h]]
    ELSE used

\* Variant: every verify that saw a hash records it
usedAfterVerifyMarkAll(used, txHash, result, t) ==
    IF txHash # ""
    THEN [h \in DOMAIN used \cup {txHash} |-> IF h = txHash THEN t ELSE used[h]]
    ELSE used

\* What a returning verify leaves in usedTxHashes: verify has no write to
\* the map besides evictStale
usedAfterVerify(used, txHash, result, t) == used

\* Variant: the map is replaced by one holding the settled hash alone
settleInsertOnly(used, txHash, t) == [h \in {txHash} |-> t]

\* settle(): this.usedTxHashes.set(txHash, Date.now())
settleInsert(used, txHash, t) ==
    [h \in DOMAIN used \cup {txHash} |-> IF h = txHash THEN t ELSE used[h]]

\* settle(): payer from the receipt, txHash as fallback
settlePayer(txHash, rpcOk, receipt) ==
    IF rpcOk /\ receipt.present THEN receipt.from ELSE txHash

\* Variant: transaction and payer swapped in the response
settleResponseSwapped(txHash, payer) ==
    [success |-> TRUE, transaction |-> payer, network |-> NETWORK, payer |-> txHash]

\* settle(): the response
settleResponse(txHash, payer) ==
    [success |-> TRUE, transaction |-> txHash, network |-> NETWORK, payer |-> payer]

\* Variant: the protocol version 1 is advertised
getSupportedV1 == {[x402Version |-> 1, scheme |-> "exact", network |-> NETWORK]}

\* getSupported()
getSupported == {[x402Version |-> X402Version, scheme |-> "exact", network |-> NETWORK]}

\* EvolveSchemeServer.parsePrice: the price is already the raw amount
parsePrice(price) == [amount |-> price, asset |-> "native"]

(***************************************************************************)
(* Payment middleware (paymentMiddleware of @x402/hono, re-exported by     *)
(* x402/hono-middleware.ts) and the requests it serves                     *)
(***************************************************************************)
IdleReq ==
    [pc |-> "idle", route |-> "", hasProof |-> FALSE, txHash |-> "",
     verifyCalled |-> FALSE, vres |-> Pending, payer |-> "",
     handler |-> "notrun", settleCalled |-> FALSE, settleAt |-> <<>>,
     status |-> 0, required |-> <<>>, settled |-> <<>>,
     pre |-> "none", preSettled |-> FALSE, postUsed |-> FALSE,
     rpcFailed |-> FALSE, verifyAdded |-> FALSE,
     body |-> <<>>, threw |-> FALSE, settleRpcFailed |-> FALSE]

\* base64(JSON(obj)) and its inverse
EncodeHeader(obj) == <<"base64", "json", obj>>
DecodeHeader(hdr) == hdr[3]

\* The requirement of a protected route
Requirement(route) ==
    LET p == parsePrice(PriceOf(route))
    IN [scheme |-> "exact", network |-> NETWORK, asset |-> p.asset,
        amount |-> p.amount, payTo |-> TREASURY_ADDRESS,
        maxTimeoutSeconds |-> 300]

\* accepts: the route's requirement, offered when the facilitator supports
\* its scheme on its network
Accepts(route) ==
    LET rq == Requirement(route)
    IN IF \E k \in getSupported :
              /\ k.x402Version = X402Version
              /\ k.scheme = rq.scheme
              /\ k.network = rq.network
       THEN <<rq>> ELSE <<>>

PaymentRequired(route) ==
    [protocolVersion |-> X402Version, resource |-> route, accepts |-> Accepts(route)]

\* RequirePayment: 402 + PAYMENT-REQUIRED
Respond402(q) ==
    [q EXCEPT !.pc = "done", !.status = 402, !.body = <<>>,
              !.required = <<EncodeHeader(PaymentRequired(q.route))>>]

\* The middleware's reaction to a VerifyResponse
AfterVerify(q, result) ==
    IF result.isValid
    THEN [q EXCEPT !.pc = "executing", !.vres = result, !.payer = result.payer]
    ELSE Respond402([q EXCEPT !.vres = result])

\* The middleware's reaction to a SettleResponse
AfterSettle(q, resp) ==
    IF resp.success
    THEN [q EXCEPT !.pc = "done", !.status = 200,
                   !.settled = <<EncodeHeader(resp)>>]
    ELSE Respond402(q)

(***************************************************************************)
(* EventEmitter (server/src/events.ts) and the hooks registered on the     *)
(* resource server (registerEventHooks).  A hook works on the pair         *)
(* [log, vts] of the event log and the verifyTimestamps map.               *)
(***************************************************************************)
\* Variant: the log is never compacted
emitUnbounded(log, event) == Append(log, event)

\* EventEmitter.emit: push, then compact to the newest half when over size
emit(log, event) ==
    LET l == Append(log, event)
    IN IF Len(l) > maxLogSize
       THEN SubSeq(l, Len(l) - (maxLogSize \div 2) + 1, Len(l))
       ELSE l

emitPaymentSubmitted(log, agentId, txHash, amount, to, t) ==
    emit(log, [type |-> "payment_submitted", timestamp |-> t, agentId |-> agentId,
               txHash |-> txHash, amount |-> amount, to |-> to])

emitPaymentConfirmed(log, agentId, txHash, latencyMs, t) ==
    emit(log, [type |-> "payment_confirmed", timestamp |-> t, agentId |-> agentId,
               txHash |-> txHash, latencyMs |-> latencyMs])

emitPaymentFailed(log, agentId, txHash, error, t) ==
    emit(log, [type |-> "payment_failed", timestamp |-> t, agentId |-> agentId,
               txHash |-> txHash, error |-> error])

emitRequestServed(log, agentId, endpoint, latencyMs, txHash, t) ==
    emit(log, [type |-> "request_served", timestamp |-> t, agentId |-> agentId,
               endpoint |-> endpoint, latencyMs |-> latencyMs, txHash |-> txHash])

\* extractTx: the requests carry no X-Agent-ID header, so the agent id is the
\* head of the hash
extractTx(txHash) ==
    [txHash |-> txHash,
     agentId |-> IF txHash \in DOMAIN txAgentMap THEN txAgentMap[txHash] ELSE txHash]

MapSet(m, k, v) == [x \in DOMAIN m \cup {k} |-> IF x = k THEN v ELSE m[x]]
MapDelete(m, k) == [x \in DOMAIN m \ {k} |-> m[x]]

\* Variant: the hook emits nothing
onAfterVerifySilent(hs, txHash, requirements, result, t) == hs

\* onAfterVerify hook: nothing for an invalid result; for a valid one the
\* time is noted and payment_submitted is emitted
onAfterVerify(hs, txHash, requirements, result, t) ==
    IF ~result.isValid THEN hs
    ELSE LET x == extractTx(txHash)
         IN [log |-> emitPaymentSubmitted(hs.log, x.agentId, x.txHash,
                                          requirements.amount, requirements.payTo, t),
             vts |-> MapSet(hs.vts, x.txHash, t)]

\* onAfterSettle hook: payment_confirmed, then request_served
onAfterSettle(hs, txHash, endpoint, t) ==
    LET x == extractTx(txHash)
        startTime == IF x.txHash \in DOMAIN hs.vts THEN hs.vts[x.txHash] ELSE 0
        latencyMs == IF startTime # 0 THEN t - startTime ELSE 0
        log1 == emitPaymentConfirmed(hs.log, x.agentId, x.txHash, latencyMs, t)
    IN [log |-> emitRequestServed(log1, x.agentId, endpoint, latencyMs, x.txHash, t),
        vts |-> MapDelete(hs.vts, x.txHash)]

\* onVerifyFailure hook
onVerifyFailure(hs, txHash, error, t) ==
    LET x == extractTx(txHash)
    IN [hs EXCEPT !.log = emitPaymentFailed(hs.log, x.agentId, x.txHash, error, t)]

\* onSettleFailure hook
onSettleFailure(hs, txHash, error, t) ==
    LET x == extractTx(txHash)
    IN [hs EXCEPT !.log = emitPaymentFailed(hs.log, x.agentId, x.txHash, error, t)]

\* The resource server around facilitator.verify: the after-verify hooks on
\* a returned result, the failure hooks on a thrown error
verifyHooks(hs, txHash, requirements, outcome, t) ==
    IF outcome.threw
    THEN onVerifyFailure(hs, txHash, outcome.value.invalidReason, t)
    ELSE onAfterVerify(hs, txHash, requirements, outcome.value, t)

\* The resource server around facilitator.settle
settleHooks(hs, txHash, endpoint, outcome, t) ==
    IF outcome.threw
    THEN onSettleFailure(hs, txHash, "Settlement failed", t)
    ELSE onAfterSettle(hs, txHash, endpoint, t)

\* The middleware's reaction to the way verify ended
AfterVerifyOutcome(q, outcome) ==
    IF outcome.threw
    THEN [q EXCEPT !.pc = "done", !.status = 500, !.threw = TRUE, !.vres = outcome.value]
    ELSE AfterVerify(q, outcome.value)

\* Request r carried txHash h and its settle returned success:true
SettleSucceeded(r, h) ==
    /\ req[r].hasProof /\ req[r].txHash = h
    /\ req[r].settled # <<>>
    /\ DecodeHeader(req[r].settled[1]).success

\* Some settle(h) has returned success:true, and less than the TTL has
\* passed at time t since it marked h used
SettledFresh(h, t) ==
    \E r \in Reqs : SettleSucceeded(r, h) /\ t - req[r].settleAt[1] < TX_HASH_TTL_MS

\* Does the map `after` hold a hash that `before` does not ?
Adds(before, after) == ~(DOMAIN after \subseteq DOMAIN before)

\* Age class of the entry of h in the map, at time t
EntryAge(used, h, t) ==
    IF h \notin DOMAIN used THEN "absent"
    ELSE IF t - used[h] < TX_HASH_TTL_MS THEN "fresh"
    ELSE IF t - used[h] = TX_HASH_TTL_MS THEN "boundary"
    ELSE "expired"

\* The body a handler produces for a route
HandlerBody(route) == <<"result", route>>

\* The hooks' state
Hooks == [log |-> eventLog, vts |-> verifyTimestamps]

\* The hooks run when they were registered on the resource server
RunVerifyHooks(txHash, requirements, outcome) ==
    IF hooksRegistered THEN verifyHooks(Hooks, txHash, requirements, outcome, now) ELSE Hooks

RunSettleHooks(txHash, endpoint, outcome) ==
    IF hooksRegistered THEN settleHooks(Hooks, txHash, endpoint, outcome, now) ELSE Hooks

\* A request arrives.  Unprotected route: the handler runs, its response is
\* returned as is.  Protected route without PAYMENT-SIGNATURE: 402.
\* Protected route with a proof: on to verify.
ArriveStep(r) ==
    /\ req[r].pc = "idle"
    /\ IF r = 1 THEN TRUE ELSE req[r - 1].pc # "idle"   \* numbered in arrival order
    /\ \E route \in Routes, hasProof \in BOOLEAN, h \in ProofHashes, ok \in BOOLEAN :
        LET q == [req[r] EXCEPT !.route = route, !.hasProof = hasProof, !.txHash = h]
        IN /\ (~hasProof => h = "")
           /\ (route \notin ProtectedRoutes /\ hasProof) => h = "h1"
           /\ (route \in ProtectedRoutes /\ hasProof) => ok
           /\ (route \in ProtectedRoutes /\ ~hasProof) => ok
           /\ req' = [req EXCEPT ![r] =
                IF route \notin ProtectedRoutes
                THEN [q EXCEPT !.pc = "done",
                               !.handler = IF ok THEN "ok" ELSE "failed",
                               !.body = IF ok THEN HandlerBody(route) ELSE <<"error">>,
                               !.status = IF ok THEN 200 ELSE 500]
                ELSE IF ~hasProof
                THEN Respond402(q)
                ELSE [q EXCEPT !.pc = "verify"]]
    /\ UNCHANGED <<usedTxHashes, now, ledger, eventLog, verifyTimestamps, hooksRegistered, agentVars, poolVars>>

\* the request carries no X-Agent-ID header
Arrive(r) ==
    /\ ArriveStep(r)
    /\ UNCHANGED metricVars

\* captureAgentId, mounted on /api/transform/*: with an X-Agent-ID header
\* and a PAYMENT-SIGNATURE whose payload has a txHash, the hash is mapped to
\* the agent
captureAgentId(map, route, agentId, hasSig, txHash) ==
    IF route \in ProtectedRoutes /\ agentId # "" /\ hasSig /\ txHash # ""
    THEN MapSet(map, txHash, agentId)
    ELSE map

\* X-Agent-ID as it can arrive: absent, or the agent's id
AgentHeaders == {"", "agent-000"}

\* A request arrives at the server as index.ts wires it: captureAgentId
\* runs before the payment middleware
ArriveWithAgent(r) ==
    /\ ArriveStep(r)
    /\ \E agentId \in AgentHeaders :
         txAgentMap' = captureAgentId(txAgentMap, req'[r].route, agentId,
                                      req'[r].hasProof, req'[r].txHash)
    /\ UNCHANGED <<collector, observed, dash, bus>>

\* the body of the setInterval callback, run at time t
sweep(vts, map, t) ==
    LET stale == {h \in DOMAIN vts : t - vts[h] > EVICTION_AGE_MS}
    IN [vts |-> [h \in DOMAIN vts \ stale |-> vts[h]],
        map |-> [h \in DOMAIN map \ stale |-> map[h]]]

\* The timer fires: a minute has passed.  The clock is followed while a
\* timestamp is left to age, and for MaxSweeps minutes at least.  A request
\* is answered within the minute it arrived in.
Sweep ==
    /\ verifyTimestamps # <<>> \/ now < MaxSweeps * SweepIntervalMs
    /\ \A r \in Reqs : req[r].pc \in {"idle", "done"}
    /\ now' = now + SweepIntervalMs
    /\ LET s == sweep(verifyTimestamps, txAgentMap, now')
       IN /\ verifyTimestamps' = s.vts
          /\ txAgentMap' = s.map
    /\ UNCHANGED <<usedTxHashes, ledger, req, eventLog, hooksRegistered, agentVars, poolVars,
                   collector, observed, dash, bus>>

\* verify() up to its first await: evictStale, MissingHash, AlreadyUsed
VerifyStart(r) ==
    /\ req[r].pc = "verify"
    /\ LET h == req[r].txHash
           used1 == evictStale(usedTxHashes, now)
           res == verifyPrecheck(used1, h)
           q == [req[r] EXCEPT !.verifyCalled = TRUE,
                               !.pre = EntryAge(usedTxHashes, h, now),
                               !.preSettled = SettledFresh(h, now),
                               !.postUsed = (h \in DOMAIN used1)]
           used2 == IF res = Pending THEN used1 ELSE usedAfterVerify(used1, h, res, now)
           q2 == [q EXCEPT !.verifyAdded = Adds(usedTxHashes, used2)]
           hs == IF res = Pending THEN Hooks
                 ELSE RunVerifyHooks(h, Requirement(req[r].route), Returned(res))
       IN /\ usedTxHashes' = used2
          /\ req' = [req EXCEPT ![r] =
                IF res = Pending THEN [q2 EXCEPT !.pc = "awaitReceipt"]
                ELSE AfterVerifyOutcome(q2, Returned(res))]
          /\ eventLog' = hs.log
          /\ verifyTimestamps' = hs.vts
    /\ UNCHANGED <<now, ledger, hooksRegistered, agentVars, poolVars, metricVars>>

\* verify(): getTransactionReceipt resolves or throws
VerifyReceipt(r) ==
    /\ req[r].pc = "awaitReceipt"
    /\ \E rpcOk \in BOOLEAN :
        LET h == req[r].txHash
            out == IF rpcOk THEN Returned(verifyReceipt(ledger[h])) ELSE verifyOnRpcError
            res == out.value
            goesOn == ~out.threw /\ res = Pending
            used2 == IF goesOn THEN usedTxHashes
                     ELSE usedAfterVerify(usedTxHashes, h, res, now)
            q == [req[r] EXCEPT !.rpcFailed = ~rpcOk,
                                !.verifyAdded = @ \/ Adds(usedTxHashes, used2)]
            hs == IF goesOn THEN Hooks
                  ELSE RunVerifyHooks(h, Requirement(req[r].route), out)
        IN /\ usedTxHashes' = used2
           /\ req' = [req EXCEPT ![r] =
                 IF goesOn
                 THEN [q EXCEPT !.pc = "awaitTx", !.payer = ledger[h].from]
                 ELSE AfterVerifyOutcome(q, out)]
           /\ eventLog' = hs.log
           /\ verifyTimestamps' = hs.vts
    /\ UNCHANGED <<now, ledger, hooksRegistered, agentVars, poolVars, metricVars>>

\* verify(): getTransaction resolves or throws; calldata checks; the result
VerifyTx(r) ==
    /\ req[r].pc = "awaitTx"
    /\ \E rpcOk \in BOOLEAN :
        LET h == req[r].txHash
            out == IF rpcOk
                   THEN Returned(verifyTx(ledger[h], req[r].payer, Requirement(req[r].route)))
                   ELSE verifyOnRpcError
            used2 == usedAfterVerify(usedTxHashes, h, out.value, now)
            q == [req[r] EXCEPT !.rpcFailed = ~rpcOk,
                                !.verifyAdded = @ \/ Adds(usedTxHashes, used2)]
            hs == RunVerifyHooks(h, Requirement(req[r].route), out)
        IN /\ req' = [req EXCEPT ![r] = AfterVerifyOutcome(q, out)]
           /\ usedTxHashes' = used2
           /\ eventLog' = hs.log
           /\ verifyTimestamps' = hs.vts
    /\ UNCHANGED <<now, ledger, hooksRegistered, agentVars, poolVars, metricVars>>

\* The protected handler runs and succeeds: the middleware goes on to settle
HandlerSuccess(r) ==
    /\ req[r].pc = "executing"
    /\ req' = [req EXCEPT ![r] = [@ EXCEPT !.pc = "settle", !.handler = "ok",
                                          !.body = HandlerBody(req[r].route)]]
    /\ UNCHANGED <<usedTxHashes, now, ledger, eventLog, verifyTimestamps, hooksRegistered, agentVars, poolVars, metricVars>>

\* The protected handler fails: its error response is returned, no settle
HandlerFailure(r) ==
    /\ req[r].pc = "executing"
    /\ req' = [req EXCEPT ![r] =
                [@ EXCEPT !.pc = "done", !.handler = "failed", !.status = 500,
                          !.body = <<"error">>]]
    /\ UNCHANGED <<usedTxHashes, now, ledger, eventLog, verifyTimestamps, hooksRegistered, agentVars, poolVars, metricVars>>

\* settle() up to its await: the hash is marked used
SettleStart(r) ==
    /\ req[r].pc = "settle"
    /\ usedTxHashes' = settleInsert(usedTxHashes, req[r].txHash, now)
    /\ req' = [req EXCEPT ![r] = [@ EXCEPT !.pc = "awaitSettle", !.settleCalled = TRUE,
                          !.settleAt = <<now>>]]
    /\ UNCHANGED <<now, ledger, eventLog, verifyTimestamps, hooksRegistered, agentVars, poolVars, metricVars>>

\* settle(): getTransactionReceipt resolves or throws; the response; the
\* after-settle hooks; the middleware's answer
SettleFinish(r) ==
    /\ req[r].pc = "awaitSettle"
    /\ \E rpcOk \in BOOLEAN :
        LET h == req[r].txHash
            out == Returned(settleResponse(h, settlePayer(h, rpcOk, ledger[h])))
            hs == RunSettleHooks(h, req[r].route, out)
            q == [req[r] EXCEPT !.settleRpcFailed = ~rpcOk]
        IN /\ req' = [req EXCEPT ![r] = AfterSettle(q, out.value)]
           /\ eventLog' = hs.log
           /\ verifyTimestamps' = hs.vts
    /\ UNCHANGED <<usedTxHashes, now, ledger, hooksRegistered, agentVars, poolVars, metricVars>>

\* Date.now() advances.  The clock is read by evictStale (in verify) and by
\* settle only, to age and to stamp the entries of usedTxHashes: an advance
\* is taken when an entry exists and some request is about to read the
\* clock.  The readings taken are 0 and the three times around one TTL.
ClockValues == {TX_HASH_TTL_MS - 1, TX_HASH_TTL_MS, TX_HASH_TTL_MS + 1}

Tick ==
    /\ usedTxHashes # <<>>
    /\ \E r \in Reqs : req[r].pc \in {"verify", "settle"}
    /\ \E t \in ClockValues : t > now /\ now' = t
    /\ UNCHANGED <<usedTxHashes, ledger, req, eventLog, verifyTimestamps, hooksRegistered, agentVars, poolVars, metricVars>>

InitServer ==
    /\ usedTxHashes = <<>>
    /\ now = 0
    /\ ledger \in {l \in [Hashes -> LedgerTxs] : l["h1"] = PaidEcho /\ l["h2"] # PaidEcho}
    /\ req = [r \in Reqs |-> IdleReq]
    /\ eventLog = <<>>
    /\ verifyTimestamps = <<>>
    /\ hooksRegistered \in BOOLEAN

(***************************************************************************)
(* Agent.submitPayment (simulator/src/agent.ts): K workers of one agent    *)
(***************************************************************************)
Workers == 1..MaxWorkers

IdleWorker == [pc |-> "idle", nonce |-> 0, count |-> <<>>, msg |-> "", hash |-> <<>>]

\* Error messages sendTransaction can throw
MsgAlreadyKnownRaw == "already known; \"params\":[\"0xraw\"]"
MsgAlreadyKnown == "already known"
MsgInMempool == "transaction already in mempool"
MsgNonceTooHigh == "nonce too high"
MsgNonceTooLow == "nonce too low"
MsgOther == "fetch failed"

\* /transaction already in mempool|already known/i
IsDuplicateMsg(msg) == msg \in {MsgAlreadyKnownRaw, MsgAlreadyKnown, MsgInMempool}
\* msg.match(/"params":\["(0x[0-9a-fA-F]+)"\]/)
HasRawTx(msg) == msg = MsgAlreadyKnownRaw
\* /nonce too high/i
IsNonceTooHigh(msg) == msg = MsgNonceTooHigh
\* /nonce/i
MentionsNonce(msg) == msg \in {MsgNonceTooHigh, MsgNonceTooLow}
\* /already in mempool/i
MentionsMempool(msg) == msg = MsgInMempool

\* What the node answers to a transaction with nonce n
SendErrors(n) ==
    IF n = chainNonce THEN {MsgOther}
    ELSE IF n < chainNonce THEN {MsgAlreadyKnownRaw, MsgAlreadyKnown, MsgInMempool, MsgNonceTooLow}
    ELSE {MsgNonceTooHigh}

\* Variant: the incremented counter is not stored with the claim
claimNonceNoStore(cur) == [nonce |-> cur, next |-> cur]

\* const nonce = this.nextNonce; this.nextNonce = nonce + 1
claimNonce(cur) == [nonce |-> cur, next |-> cur + 1]

\* The claim, as the step of worker w that reads counter value cur
Claim(w, cur) ==
    LET c == claimNonce(cur)
    IN /\ nextNonce' = <<c.next>>
       /\ wk' = [wk EXCEPT ![w] = [@ EXCEPT !.pc = "awaitSend", !.nonce = c.nonce,
                                             !.count = <<>>, !.msg = "", !.hash = <<>>]]
       /\ claimed' = Append(claimed, c.nonce)

\* submitPayment is entered: with the counter set the nonce is claimed at
\* once; with the counter null the worker first awaits getTransactionCount
SubmitPayment(w) ==
    /\ wk[w].pc = "idle"
    /\ Len(claimed) + Cardinality({v \in Workers : wk[v].pc \in {"awaitCount", "countReady"}})
           < MaxPayments
    /\ IF nextNonce = <<>>
       THEN /\ wk' = [wk EXCEPT ![w] = [@ EXCEPT !.pc = "awaitCount"]]
            /\ UNCHANGED <<nextNonce, claimed>>
       ELSE Claim(w, nextNonce[1])
    /\ UNCHANGED <<chainNonce, startNonce, resynced, sendFailed, presented, reported,
                   serverVars, poolVars, metricVars>>

\* The node answers getTransactionCount(pending) of the first call
LedgerCount(w) ==
    /\ wk[w].pc = "awaitCount"
    /\ wk' = [wk EXCEPT ![w] = [@ EXCEPT !.pc = "countReady", !.count = <<chainNonce>>]]
    /\ UNCHANGED <<nextNonce, chainNonce, startNonce, claimed, resynced, sendFailed,
                   presented, reported, serverVars, poolVars, metricVars>>

\* The worker resumes: this.nextNonce = <count>, then the claim
CountResolved(w) ==
    /\ wk[w].pc = "countReady"
    /\ Claim(w, wk[w].count[1])
    /\ UNCHANGED <<chainNonce, startNonce, resynced, sendFailed, presented, reported,
                   serverVars, poolVars, metricVars>>

\* sendTransaction resolves: the node accepted the transaction
SendAccepted(w) ==
    /\ wk[w].pc = "awaitSend"
    /\ wk[w].nonce = chainNonce
    /\ chainNonce' = chainNonce + 1
    /\ wk' = [wk EXCEPT ![w] = [@ EXCEPT !.pc = "awaitReceipt",
                                          !.hash = <<wk[w].nonce>>]]
    /\ UNCHANGED <<nextNonce, startNonce, claimed, resynced, sendFailed, presented, reported,
                   serverVars, poolVars, metricVars>>

\* makeRequest's catch and the loop: an exception thrown by submitPayment
\* becomes a failed RequestResult, which is handed to the result handler
reportPaymentError(results, agentId, msg) ==
    results \cup {[success |-> FALSE, agentId |-> agentId, error |-> msg]}

\* makeRequest step 4: the hash returned by submitPayment is the payload of
\* the PAYMENT-SIGNATURE header of the retried request
presentProof(proofs, hash) ==
    [h \in DOMAIN proofs \cup {hash} |->
        IF h \in DOMAIN proofs
        THEN (IF h = hash THEN proofs[h] + 1 ELSE proofs[h])
        ELSE 1]

\* Variant: the claimed nonce is never given back
nonceAfterErrorKeep(msg, nonce, cur) == cur

\* the counter after a failed send that is neither recovered nor
\* resynchronised: the claimed nonce is given back unless the message
\* speaks of a nonce or of the mempool
nonceAfterError(msg, nonce, cur) ==
    IF ~MentionsNonce(msg) /\ ~MentionsMempool(msg) THEN <<nonce>> ELSE cur

\* sendTransaction throws: the catch block up to its first await or its throw
SendThrows(w) ==
    /\ wk[w].pc = "awaitSend"
    /\ \E msg \in SendErrors(wk[w].nonce) :
        /\ sendFailed' = TRUE
        /\ IF IsDuplicateMsg(msg) /\ HasRawTx(msg)
           THEN /\ wk' = [wk EXCEPT ![w] = [@ EXCEPT !.pc = "awaitReceipt", !.msg = msg,
                                                     !.hash = <<wk[w].nonce>>]]
                /\ UNCHANGED <<nextNonce, reported>>
           ELSE IF IsNonceTooHigh(msg)
           THEN /\ wk' = [wk EXCEPT ![w] = [@ EXCEPT !.pc = "awaitResync", !.msg = msg]]
                /\ UNCHANGED <<nextNonce, reported>>
           ELSE /\ wk' = [wk EXCEPT ![w] = [@ EXCEPT !.pc = "idle", !.msg = msg]]
                /\ nextNonce' = nonceAfterError(msg, wk[w].nonce, nextNonce)
                /\ reported' = reportPaymentError(reported, 0, msg)
    /\ UNCHANGED <<chainNonce, startNonce, claimed, resynced, presented, serverVars, poolVars, metricVars>>

\* "nonce too high": getTransactionCount resolves, the counter is re-set,
\* and the error is thrown on
ResyncResolved(w) ==
    /\ wk[w].pc = "awaitResync"
    /\ nextNonce' = <<chainNonce>>
    /\ resynced' = TRUE
    /\ wk' = [wk EXCEPT ![w] = [@ EXCEPT !.pc = "idle"]]
    /\ reported' = reportPaymentError(reported, 0, wk[w].msg)
    /\ UNCHANGED <<chainNonce, startNonce, claimed, sendFailed, presented, serverVars, poolVars, metricVars>>

\* waitForTransactionReceipt resolves: submitPayment returns the hash and
\* makeRequest sends the retry that carries it
ReceiptResolved(w) ==
    /\ wk[w].pc = "awaitReceipt"
    /\ wk' = [wk EXCEPT ![w] = [@ EXCEPT !.pc = "idle"]]
    /\ presented' = presentProof(presented, wk[w].hash[1])
    /\ UNCHANGED <<nextNonce, chainNonce, startNonce, claimed, resynced, sendFailed,
                   reported, serverVars, poolVars, metricVars>>

InitAgent ==
    /\ nextNonce = <<>>
    /\ wk = [w \in Workers |-> IdleWorker]
    /\ chainNonce \in 0..MaxStartNonce
    /\ startNonce = chainNonce
    /\ claimed = <<>>
    /\ resynced = FALSE
    /\ sendFailed = FALSE
    /\ presented = <<>>
    /\ reported = {}

(***************************************************************************)
(* The simulator's AgentPool: initialize, start, stop, and the worker      *)
(* loops of its agents.  Agent i is the agent built from agentKeys[i]      *)
(* ("agent-00i"); its account on the ledger is written i as well.          *)
(***************************************************************************)
AgentIds == 0..(MaxAgents - 1)
Loops == 1..MaxLoops

\* PoolConfig, as createPoolConfig builds it from the command line defaults
PoolConfig(agentCount) ==
    [agentCount |-> agentCount, fundingAmount |-> DefaultFunding]

\* AgentMetrics as registerAgent creates it
NewAgentMetrics ==
    [totalRequests |-> 0, successfulRequests |-> 0, failedRequests |-> 0]

\* MetricsCollector.registerAgent: agentMetrics.set(agentId, fresh record)
registerAgent(metrics, agentId) == MapSet(metrics, agentId, NewAgentMetrics)

\* MetricsCollector.recordRequest: nothing for an unknown agent
recordRequest(metrics, result) ==
    IF result.agentId \notin DOMAIN metrics THEN metrics
    ELSE [metrics EXCEPT ![result.agentId] =
            [totalRequests |-> @.totalRequests + 1,
             successfulRequests |->
                 IF result.success THEN @.successfulRequests + 1
                 ELSE @.successfulRequests,
             failedRequests |->
                 IF result.success THEN @.failedRequests
                 ELSE @.failedRequests + 1]]

(***************************************************************************)
(* The metrics collector: recordRequest feeds it, getPoolMetrics reads it. *)
(***************************************************************************)
\* [...latencies].sort((a, b) => a - b): the k-th element is the value v
\* with fewer than k samples below it and at least k samples up to it
sortAscending(seq) ==
    LET n == Len(seq)
        below(v) == Cardinality({i \in 1..n : seq[i] < v})
        upto(v) == Cardinality({i \in 1..n : seq[i] <= v})
    IN [k \in 1..n |->
          CHOOSE v \in {seq[i] : i \in 1..n} : below(v) < k /\ k <= upto(v)]

\* reduce((a, b) => a + b, 0), summed by halves
RECURSIVE SumRange(_, _, _)
SumRange(seq, lo, hi) ==
    IF lo > hi THEN 0
    ELSE IF lo = hi THEN seq[lo]
    ELSE LET mid == (lo + hi) \div 2
         IN SumRange(seq, lo, mid) + SumRange(seq, mid + 1, hi)

SumSeq(seq) == SumRange(seq, 1, Len(seq))

\* agents.reduce((sum, a) => sum + a.<counter>, 0), the three counters at once
RECURSIVE SumAgents(_, _)
SumAgents(metrics, ids) ==
    IF ids = {} THEN NewAgentMetrics
    ELSE LET a == CHOOSE x \in ids : TRUE
             rest == SumAgents(metrics, ids \ {a})
         IN [totalRequests |-> rest.totalRequests + metrics[a].totalRequests,
             successfulRequests |-> rest.successfulRequests + metrics[a].successfulRequests,
             failedRequests |-> rest.failedRequests + metrics[a].failedRequests]

\* b^e mod m
RECURSIVE PowMod(_, _, _)
PowMod(b, e, m) == IF e = 0 THEN 1 % m ELSE (b * PowMod(b, e - 1, m)) % m

\* the double p / 100 is M * 2^-(52 + s), s the least number with
\* p * 2^s >= 100 and M the integer nearest to p * 2^(52 + s) / 100
DoubleShift(p) == CHOOSE s \in 0..7 : p * 2^s >= 100 /\ (s = 0 \/ p * 2^(s - 1) < 100)

\* 100 * M - p * 2^(52 + s): by how much, in hundredths of its last bit,
\* the double p / 100 lies above p / 100 (below, when negative)
DoubleError(p) ==
    LET r == (p * PowMod(2, 52 + DoubleShift(p), 100)) % 100
    IN IF r > 50 THEN 100 - r ELSE 0 - r

\* (p / 100) * n in doubles for an integer p * n / 100 = k: the exact
\* product of the double p / 100 and n is k + n * err / (100 * 2^(52 + s));
\* it is rounded to a double above k when that excess is more than half of
\* the last bit of k, 2^(j - 53) for 2^j <= k < 2^(j + 1)
ProductRoundsAbove(p, n) ==
    LET k == (p * n) \div 100
        j == CHOOSE i \in 0..30 : 2^i <= k /\ k < 2^(i + 1)
    IN /\ DoubleError(p) > 0
       /\ DoubleError(p) * n > 100 * 2^(j + DoubleShift(p) - 1)

\* Math.ceil((p / 100) * n) in double arithmetic: a product that is not an
\* integer is 1/100 or more from the next integer and rounding does not
\* carry it across; a product that is an integer k comes out as k or as the
\* double after k
CeilPercent(p, n) ==
    IF (p * n) % 100 = 0 /\ ProductRoundsAbove(p, n)
    THEN (p * n) \div 100 + 1
    ELSE (p * n + 99) \div 100

\* Variant: the index is rounded down instead of up
percentileFloor(sorted, p) ==
    IF Len(sorted) = 0 THEN 0
    ELSE LET idx == ((p * Len(sorted)) \div 100) - 1
         IN sorted[(IF idx > 0 THEN idx ELSE 0) + 1]

\* MetricsCollector.percentile: 0 for no sample, else
\* sorted[max(0, ceil(p/100 * n) - 1)], written here with indices from 1
percentile(sorted, p) ==
    IF Len(sorted) = 0 THEN 0
    ELSE LET idx == CeilPercent(p, Len(sorted)) - 1
         IN sorted[(IF idx > 0 THEN idx ELSE 0) + 1]

\* this.recentRequests.filter((t) => t > windowStart)
SelectRecent(timestamps, windowStart) ==
    SelectSeq(timestamps, LAMBDA t : t > windowStart)

\* the timestamps getPoolMetrics keeps at time t
recentWindow(timestamps, t) == SelectRecent(timestamps, t - TPS_WINDOW_MS)

\* MetricsCollector.getPoolMetrics at time t: the output, and the collector
\* with recentRequests cut to the window.  avgLatencyMs is kept in
\* hundredths (Math.round(avg * 100) / 100).
getPoolMetrics(metrics, c, t) ==
    LET totals == SumAgents(metrics, DOMAIN metrics)
        sortedLatencies == sortAscending(c.latencies)
        n == Len(sortedLatencies)
        recent == recentWindow(c.recentRequests, t)
    IN [out |->
          [totalRequests |-> totals.totalRequests,
           successfulRequests |-> totals.successfulRequests,
           failedRequests |-> totals.failedRequests,
           avgLatencyHundredths |->
               IF n > 0 THEN (200 * SumSeq(sortedLatencies) + n) \div (2 * n) ELSE 0,
           p50LatencyMs |-> percentile(sortedLatencies, 50),
           p95LatencyMs |-> percentile(sortedLatencies, 95),
           p99LatencyMs |-> percentile(sortedLatencies, 99),
           currentTps |-> Len(recent)],
        collector |-> [c EXCEPT !.recentRequests = recent]]

\* the collector right after construction
NewCollector == [latencies |-> <<>>, recentRequests |-> <<>>]

\* the last elements of a sequence: Array.slice(-n)
LastN(seq, n) ==
    IF Len(seq) <= n THEN seq ELSE SubSeq(seq, Len(seq) - n + 1, Len(seq))

\* MetricsCollector.recordRequest, the sample buffers: nothing for an
\* unknown agent; else the latency and the timestamp are pushed, whatever
\* the result's success, and the latencies are cut once over the cap
recordSamples(c, metrics, result) ==
    IF result.agentId \notin DOMAIN metrics THEN c
    ELSE LET l == Append(c.latencies, result.latencyMs)
         IN [latencies |-> IF Len(l) > LatenciesCap THEN LastN(l, LatenciesKept) ELSE l,
             recentRequests |-> Append(c.recentRequests, result.timestamp)]

\* a transaction of the faucet wallet: a Token::transfer of amount to the
\* account recipient, sent to the token account `to`
FaucetTx(to, recipient, amount) ==
    [to |-> to, recipient |-> recipient, amount |-> amount, status |-> "pending"]

\* the batch loop starts after the first agent: for (let i = 1; ...)
FundingLoopStart == 1

NewLoop == [pc |-> "none"]

NewAgent == [running |-> FALSE, activeWorkers |-> {}, loop |-> [w \in Loops |-> NewLoop]]

\* the pool after its constructor
NewPool(agentCount) ==
    [config |-> PoolConfig(agentCount),
     agents |-> <<>>,
     metrics |-> <<>>,
     running |-> FALSE,
     metricsInterval |-> FALSE,
     initPc |-> "constructed",
     candidate |-> 1,
     tokenAccountId |-> <<>>,
     i |-> 0,
     fundingTxHashes |-> <<>>,
     pendingAgents |-> <<>>,
     startPc |-> "none",
     timers |-> {},
     stopPc |-> "none",
     awaited |-> [a \in AgentIds |-> {}]]

\* nothing observed yet
NewObs ==
    [rpcThrew |-> FALSE, begun |-> 0, delivered |-> 0, stopResolved |-> FALSE,
     beganAfterStop |-> FALSE, snapshots |-> FALSE, snapshotAfterStop |-> FALSE]

\* the dashboard's counters (countersRef) before any event
NewCounters ==
    [totalRequests |-> 0, successfulRequests |-> 0, failedRequests |-> 0,
     mempoolErrors |-> 0, processedCount |-> 0, agents |-> <<>>,
     latencies |-> <<>>, latencySum |-> 0]

\* no WebSocket client
NewBus == [connections |-> {}, sent |-> [s \in 1..MaxSubscribers |-> <<>>]]

InitMetrics ==
    /\ bus = NewBus
    /\ txAgentMap = <<>>
    /\ collector = NewCollector
    /\ observed = [results |-> <<>>, poolMetrics |-> <<>>, seen |-> 0, at |-> 0, rank |-> <<>>]
    /\ dash = [events |-> <<>>, c |-> NewCounters, replay |-> NewCounters]

InitPool ==
    /\ pool \in {NewPool(n) : n \in 1..MaxAgents}
    /\ faucetTxs = <<>>
    /\ agentState = [a \in AgentIds |-> NewAgent]
    /\ obs = NewObs
    /\ InitMetrics

\* Variant: the agent is not registered in the metrics collector
AddAgentUnregistered(p, agentId) ==
    [p EXCEPT !.agents = Append(@, agentId)]

\* this.agents.push(agent); this.metrics.registerAgent(config.id, ...)
AddAgent(p, agentId) ==
    [p EXCEPT !.agents = Append(@, agentId),
              !.metrics = registerAgent(@, agentId)]

RECURSIVE AddAgents(_, _)
AddAgents(p, ids) ==
    IF ids = <<>> THEN p ELSE AddAgents(AddAgent(p, Head(ids)), Tail(ids))

\* the discovery loop moves to the next candidate, or initialize throws
\* "Could not find token account" after the last one
NextCandidate(p) ==
    IF p.candidate < Len(TOKEN_ACCOUNT_CANDIDATES)
    THEN [p EXCEPT !.candidate = @ + 1, !.initPc = "discoverSend"]
    ELSE [p EXCEPT !.initPc = "failed"]

\* the batch loop's condition, and what follows the loop: with no funding
\* transaction there is nothing to wait for
AfterFundingStep(p) ==
    IF p.i < p.config.agentCount
    THEN [p EXCEPT !.initPc = "fundSend"]
    ELSE IF Len(p.fundingTxHashes) > 0
         THEN [p EXCEPT !.initPc = "awaitLast"]
         ELSE [AddAgents(p, p.pendingAgents) EXCEPT !.initPc = "initialized"]

\* initialize() up to the resolution of getChainId
InitializeBegin ==
    /\ pool.initPc = "constructed"
    /\ \E threw \in BOOLEAN :
         /\ pool' = [pool EXCEPT !.initPc = IF threw THEN "failed" ELSE "discoverSend"]
         /\ obs' = [obs EXCEPT !.rpcThrew = @ \/ threw]
    /\ UNCHANGED <<faucetTxs, agentState, serverVars, agentVars, metricVars>>

\* the trial transfer to the first agent through the current candidate
DiscoverSend ==
    /\ pool.initPc = "discoverSend"
    /\ \E threw \in BOOLEAN :
         IF threw
         THEN /\ pool' = NextCandidate(pool)
              /\ obs' = [obs EXCEPT !.rpcThrew = TRUE]
              /\ UNCHANGED faucetTxs
         ELSE /\ faucetTxs' = Append(faucetTxs,
                    FaucetTx(TOKEN_ACCOUNT_CANDIDATES[pool.candidate], 0,
                             pool.config.fundingAmount))
              /\ pool' = [pool EXCEPT !.initPc = "discoverReceipt"]
              /\ UNCHANGED obs
    /\ UNCHANGED <<agentState, serverVars, agentVars, metricVars>>

\* waitForTransactionReceipt of the trial transfer: on success the token is
\* found, the first agent is created and registered, and the batch loop starts
DiscoverReceipt ==
    /\ pool.initPc = "discoverReceipt"
    /\ \E threw \in BOOLEAN :
         IF threw
         THEN /\ pool' = NextCandidate(pool)
              /\ obs' = [obs EXCEPT !.rpcThrew = TRUE]
         ELSE /\ faucetTxs[Len(faucetTxs)].status # "pending"
              /\ pool' =
                   IF faucetTxs[Len(faucetTxs)].status = "success"
                   THEN AfterFundingStep(
                          [AddAgent(pool, 0) EXCEPT
                              !.tokenAccountId = <<TOKEN_ACCOUNT_CANDIDATES[pool.candidate]>>,
                              !.i = FundingLoopStart])
                   ELSE NextCandidate(pool)
              /\ UNCHANGED obs
    /\ UNCHANGED <<faucetTxs, agentState, serverVars, agentVars, metricVars>>

\* one round of the batch loop: send the transfer for agent i, remember its
\* hash and the agent; a throwing send rejects initialize
FundSend ==
    /\ pool.initPc = "fundSend"
    /\ \E threw \in BOOLEAN :
         IF threw
         THEN /\ pool' = [pool EXCEPT !.initPc = "failed"]
              /\ obs' = [obs EXCEPT !.rpcThrew = TRUE]
              /\ UNCHANGED faucetTxs
         ELSE /\ faucetTxs' = Append(faucetTxs,
                    FaucetTx(pool.tokenAccountId[1], pool.i, pool.config.fundingAmount))
              /\ pool' = AfterFundingStep(
                    [pool EXCEPT !.fundingTxHashes = Append(@, Len(faucetTxs) + 1),
                                 !.pendingAgents = Append(@, pool.i),
                                 !.i = @ + 1])
              /\ UNCHANGED obs
    /\ UNCHANGED <<agentState, serverVars, agentVars, metricVars>>

\* the wait for the last funding receipt (its status is not read), then the
\* creation and registration of every pending agent
AwaitLast ==
    /\ pool.initPc = "awaitLast"
    /\ \E threw \in BOOLEAN :
         IF threw
         THEN /\ pool' = [pool EXCEPT !.initPc = "failed"]
              /\ obs' = [obs EXCEPT !.rpcThrew = TRUE]
         ELSE /\ faucetTxs[pool.fundingTxHashes[Len(pool.fundingTxHashes)]].status # "pending"
              /\ pool' = [AddAgents(pool, pool.pendingAgents) EXCEPT !.initPc = "initialized"]
              /\ UNCHANGED obs
    /\ UNCHANGED <<faucetTxs, agentState, serverVars, agentVars, metricVars>>

\* the ledger executes the faucet's oldest pending transaction
Mine ==
    /\ \E k \in 1..Len(faucetTxs) :
         /\ faucetTxs[k].status = "pending"
         /\ \A j \in 1..(k - 1) : faucetTxs[j].status # "pending"
         /\ \E status \in {"success", "reverted"} :
              faucetTxs' = [faucetTxs EXCEPT ![k] = [@ EXCEPT !.status = status]]
    /\ UNCHANGED <<pool, agentState, obs, serverVars, agentVars, metricVars>>

(***************************************************************************)
(* Agent.makeRequest as a function of what the server and the payment did. *)
(* An outcome o tells how each awaited step of the request ended:          *)
(*   o.initial  the first fetch: "throws", "ok" (2xx), "notOk" (another    *)
(*              status than 402), "402noHeader", "402badHeader" (the       *)
(*              header does not parse or has no accepts[0]), "402"         *)
(*   o.pay      submitPayment: "hash" or "throws"                          *)
(*   o.retry    the second fetch: "throws", "ok", "notOk", "notOkNoBody"   *)
(*              (finalResponse.text() throws)                              *)
(***************************************************************************)
AllOutcomes ==
    [initial : {"throws", "ok", "notOk", "402noHeader", "402badHeader", "402"},
     pay : {"hash", "throws"},
     retry : {"throws", "ok", "notOk", "notOkNoBody"}]

\* a step that is not reached has no outcome of its own: it is written as
\* the successful one
Outcomes ==
    {o \in AllOutcomes :
        /\ o.initial # "402" => o.pay = "hash" /\ o.retry = "ok"
        /\ o.pay = "throws" => o.retry = "ok"}

\* a RequestResult; rejects is TRUE when makeRequest's promise rejects
\* instead of resolving with a result
RequestResult(agentId, success, error, txHash) ==
    [rejects |-> FALSE, agentId |-> agentId, success |-> success,
     error |-> error, txHash |-> txHash, latencyMs |-> 0, timestamp |-> now]

Rejects(agentId, error) ==
    [rejects |-> TRUE, agentId |-> agentId, success |-> FALSE,
     error |-> error, txHash |-> FALSE, latencyMs |-> 0, timestamp |-> now]

\* the body of makeRequest's try block; a record with threw = TRUE stands
\* for an exception raised inside it
makeRequestTry(agentId, o) ==
    IF o.initial = "throws" THEN [threw |-> TRUE, error |-> "fetch failed"]
    ELSE IF o.initial = "ok"
    THEN [threw |-> FALSE, result |-> RequestResult(agentId, TRUE, "", FALSE)]
    ELSE IF o.initial = "notOk"
    THEN [threw |-> FALSE,
          result |-> RequestResult(agentId, FALSE, "Unexpected status", FALSE)]
    ELSE IF o.initial = "402noHeader"
    THEN [threw |-> FALSE,
          result |-> RequestResult(agentId, FALSE,
                                   "402 without PAYMENT-REQUIRED header", FALSE)]
    ELSE IF o.initial = "402badHeader"
    THEN [threw |-> TRUE, error |-> "invalid payment requirement"]
    ELSE IF o.pay = "throws"
    THEN [threw |-> TRUE, error |-> "payment failed"]
    ELSE IF o.retry = "throws"
    THEN [threw |-> TRUE, error |-> "fetch failed"]
    ELSE IF o.retry = "notOkNoBody"
    THEN [threw |-> TRUE, error |-> "body unreadable"]
    ELSE IF o.retry = "notOk"
    THEN [threw |-> FALSE,
          result |-> RequestResult(agentId, FALSE, "Payment retry failed", TRUE)]
    ELSE [threw |-> FALSE, result |-> RequestResult(agentId, TRUE, "", TRUE)]

\* Variant: without the catch an exception rejects the promise
makeRequestNoCatch(agentId, o) ==
    LET t == makeRequestTry(agentId, o)
    IN IF t.threw THEN Rejects(agentId, t.error) ELSE t.result

\* makeRequest: the catch turns an exception into a failed RequestResult
\* carrying the error's message
makeRequest(agentId, o) ==
    LET t == makeRequestTry(agentId, o)
    IN IF t.threw THEN RequestResult(agentId, FALSE, t.error, FALSE) ELSE t.result

\* AgentPool.handleAgentResult
handleAgentResult(p, result) ==
    [p EXCEPT !.metrics = recordRequest(@, result)]

SetLoop(a, w, l) ==
    [agentState EXCEPT ![a] = [@ EXCEPT !.loop = [@ EXCEPT ![w] = l]]]

\* AgentPool.start() up to its await: running is set and one stagger timer
\* per agent is armed.  The simulator calls it after initialize() resolved.
PoolStart ==
    /\ pool.initPc = "initialized"
    /\ pool.startPc = "none"
    /\ ~pool.running
    /\ pool' = [pool EXCEPT !.running = TRUE,
                            !.startPc = "staggering",
                            !.timers = {pool.agents[k] : k \in 1..Len(pool.agents)}]
    /\ UNCHANGED <<faucetTxs, agentState, obs, serverVars, agentVars, metricVars>>

\* the stagger timer of agent a fires: Agent.start() returns at once when
\* the agent is running, else it sets running and launches the worker
\* loops, each of which passes its while test and goes to sleep
AgentStart(a) ==
    /\ a \in pool.timers
    /\ pool' = [pool EXCEPT !.timers = @ \ {a}]
    /\ agentState' =
         IF agentState[a].running THEN agentState
         ELSE [agentState EXCEPT ![a] =
                 [running |-> TRUE,
                  activeWorkers |-> @.activeWorkers \cup Loops,
                  loop |-> [w \in Loops |-> [@.loop[w] EXCEPT !.pc = "sleeping"]]]]
    /\ UNCHANGED <<faucetTxs, obs, serverVars, agentVars, metricVars>>

\* start() after its Promise.all: every timer has fired; setInterval
PoolStartFinish ==
    /\ pool.startPc = "staggering"
    /\ pool.timers = {}
    /\ pool' = [pool EXCEPT !.startPc = "started", !.metricsInterval = TRUE]
    /\ UNCHANGED <<faucetTxs, agentState, obs, serverVars, agentVars, metricVars>>

\* the metrics interval fires: a snapshot goes to the observer
Snapshot ==
    /\ pool.metricsInterval
    /\ obs' = [obs EXCEPT !.snapshots = TRUE,
                          !.snapshotAfterStop = @ \/ obs.stopResolved]
    /\ collector' = getPoolMetrics(pool.metrics, collector, now).collector
    /\ UNCHANGED <<bus, txAgentMap, pool, faucetTxs, agentState, observed, dash, serverVars, agentVars>>

\* a sleeping worker wakes: it leaves the loop when the agent was stopped
\* meanwhile, else it begins a request
LoopWake(a, w) ==
    /\ agentState[a].loop[w].pc = "sleeping"
    /\ IF ~agentState[a].running
       THEN /\ agentState' = SetLoop(a, w, [agentState[a].loop[w] EXCEPT !.pc = "exited"])
            /\ UNCHANGED obs
       ELSE /\ obs.begun < MaxResults
            /\ agentState' = SetLoop(a, w, [agentState[a].loop[w] EXCEPT !.pc = "requesting"])
            /\ obs' = [obs EXCEPT !.begun = @ + 1,
                                  !.beganAfterStop = @ \/ obs.stopResolved]
    /\ UNCHANGED <<pool, faucetTxs, serverVars, agentVars, metricVars>>

\* makeRequest settles: its result goes to the result handler (a rejection
\* is logged by the loop's catch), then the while test is taken again
RequestDone(a, w) ==
    /\ agentState[a].loop[w].pc = "requesting"
    /\ \E o \in Outcomes :
         LET result == makeRequest(a, o)
             pcAfter == IF agentState[a].running THEN "sleeping" ELSE "exited"
         IN IF result.rejects
            THEN /\ agentState' = SetLoop(a, w, [agentState[a].loop[w] EXCEPT !.pc = pcAfter])
                 /\ UNCHANGED <<pool, obs, collector>>
            ELSE /\ agentState' = SetLoop(a, w, [agentState[a].loop[w] EXCEPT !.pc = pcAfter])
                 /\ pool' = handleAgentResult(pool, result)
                 /\ collector' = recordSamples(collector, pool.metrics, result)
                 /\ obs' = [obs EXCEPT !.delivered = @ + 1]
    /\ UNCHANGED <<bus, txAgentMap, faucetTxs, observed, dash, serverVars, agentVars>>

\* AgentPool.stop() up to its await: the interval is cleared and every
\* agent's stop() has set running to false and waits for the workers that
\* are in activeWorkers at this moment
PoolStop ==
    /\ pool.startPc # "none"
    /\ pool.stopPc = "none"
    /\ pool.running
    /\ pool' = [pool EXCEPT !.running = FALSE,
                            !.metricsInterval = FALSE,
                            !.stopPc = "waiting",
                            !.awaited = [a \in AgentIds |->
                                           IF \E k \in 1..Len(pool.agents) : pool.agents[k] = a
                                           THEN agentState[a].activeWorkers ELSE {}]]
    /\ agentState' = [a \in AgentIds |->
                        IF \E k \in 1..Len(pool.agents) : pool.agents[k] = a
                        THEN [agentState[a] EXCEPT !.running = FALSE]
                        ELSE agentState[a]]
    /\ UNCHANGED <<faucetTxs, obs, serverVars, agentVars, metricVars>>

\* every awaited worker has left its loop: the agents' stop() calls clear
\* activeWorkers and stop() resolves
PoolStopResolve ==
    /\ pool.stopPc = "waiting"
    /\ \A a \in AgentIds : \A w \in pool.awaited[a] : agentState[a].loop[w].pc = "exited"
    /\ pool' = [pool EXCEPT !.stopPc = "resolved"]
    /\ agentState' = [a \in AgentIds |->
                        IF pool.awaited[a] # {}
                        THEN [agentState[a] EXCEPT !.activeWorkers = {}]
                        ELSE agentState[a]]
    /\ obs' = [obs EXCEPT !.stopResolved = TRUE]
    /\ UNCHANGED <<faucetTxs, serverVars, agentVars, metricVars>>

InitP ==
    /\ InitPool
    /\ InitServer
    /\ ~hooksRegistered
    /\ ledger = [h \in Hashes |-> IF h = "h1" THEN PaidEcho ELSE NoTx]
    /\ InitAgent
    /\ chainNonce = 0

\* initialize() on a fresh pool
NextPool ==
    \/ InitializeBegin
    \/ DiscoverSend
    \/ DiscoverReceipt
    \/ FundSend
    \/ AwaitLast
    \/ Mine

\* the pool as initialize() leaves it when every step succeeded at once:
\* the first candidate is the token and every transfer was executed
InitializedPool(agentCount) ==
    [AddAgents(NewPool(agentCount), [k \in 1..agentCount |-> k - 1]) EXCEPT
        !.initPc = "initialized",
        !.tokenAccountId = <<TOKEN_ACCOUNT_CANDIDATES[1]>>,
        !.i = agentCount,
        !.fundingTxHashes = [k \in 1..(agentCount - 1) |-> k + 1],
        !.pendingAgents = [k \in 1..(agentCount - 1) |-> k]]

InitRun ==
    /\ pool \in {InitializedPool(n) : n \in 1..MaxAgents}
    /\ faucetTxs = [k \in 1..pool.config.agentCount |->
                      [FaucetTx(TOKEN_ACCOUNT_CANDIDATES[1], k - 1,
                                pool.config.fundingAmount) EXCEPT !.status = "success"]]
    /\ agentState = [a \in AgentIds |-> NewAgent]
    /\ obs = NewObs
    /\ InitMetrics
    /\ InitServer
    /\ ~hooksRegistered
    /\ ledger = [h \in Hashes |-> IF h = "h1" THEN PaidEcho ELSE NoTx]
    /\ InitAgent
    /\ chainNonce = 0

\* start(), the agents' worker loops and stop() on an initialized pool
NextRun ==
    \/ PoolStart
    \/ \E a \in AgentIds : AgentStart(a)
    \/ PoolStartFinish
    \/ Snapshot
    \/ \E a \in AgentIds, w \in Loops : LoopWake(a, w)
    \/ \E a \in AgentIds, w \in Loops : RequestDone(a, w)
    \/ PoolStop
    \/ PoolStopResolve

\* the latencies the collector is fed when its percentiles are looked at
LatencySamples == {10, 20, 30, 40, 50, 100, 200}

\* what the history of recorded results keeps of a result
Recorded(results, result) ==
    Append(results, [success |-> result.success, timestamp |-> result.timestamp,
                     latencyMs |-> result.latencyMs])

\* handleAgentResult for one result of agent 0 with the given latency
Record(success, latencyMs) ==
    LET result == [RequestResult(0, success, FALSE, FALSE) EXCEPT !.latencyMs = latencyMs]
    IN /\ pool' = handleAgentResult(pool, result)
       /\ collector' = recordSamples(collector, pool.metrics, result)
       /\ observed' = [observed EXCEPT !.results = Recorded(@, result)]
       /\ UNCHANGED <<bus, txAgentMap, faucetTxs, agentState, obs, dash, serverVars, agentVars>>

\* a successful request with a latency not recorded before
RecordSample ==
    \E l \in LatencySamples :
        /\ \A i \in 1..Len(collector.latencies) : collector.latencies[i] # l
        /\ Record(TRUE, l)

\* the metrics interval: getPoolMetrics() is computed and handed on
GetPoolMetrics ==
    LET m == getPoolMetrics(pool.metrics, collector, now)
    IN /\ collector' = m.collector
       /\ observed' = [observed EXCEPT !.poolMetrics = <<m.out>>,
                                       !.seen = Len(observed.results),
                                       !.at = now]
       /\ UNCHANGED <<bus, txAgentMap, pool, faucetTxs, agentState, obs, dash, serverVars, agentVars>>

\* a request of agent 0 ends, successful or not, and its result is recorded
RecordRequest ==
    /\ Len(observed.results) < MaxRecords
    /\ \E success \in BOOLEAN : Record(success, 10)

\* half a throughput window passes
HalfWindow == TPS_WINDOW_MS \div 2

ClockTick ==
    /\ now < MaxTicks * HalfWindow
    /\ now' = now + HalfWindow
    /\ UNCHANGED <<usedTxHashes, ledger, req, eventLog, verifyTimestamps,
                   hooksRegistered, agentVars, poolVars, metricVars>>

NextMetrics ==
    \/ RecordRequest
    \/ ClockTick
    \/ GetPoolMetrics

NextPercentile ==
    \/ RecordSample
    \/ GetPoolMetrics

(***************************************************************************)
(* The event emitter alone: one event per millisecond, the four helpers    *)
(* taking turns, so that the event's timestamp tells its place in the      *)
(* emitted sequence.                                                       *)
(***************************************************************************)
EmitStep ==
    /\ now < MaxEmits
    /\ eventLog' =
         CASE now % 4 = 0 -> emitPaymentSubmitted(eventLog, "agent-000", "h1", 100,
                                                  TREASURY_ADDRESS, now)
           [] now % 4 = 1 -> emitPaymentConfirmed(eventLog, "agent-000", "h1", 1, now)
           [] now % 4 = 2 -> emitRequestServed(eventLog, "agent-000", "/api/transform/echo",
                                               1, "h1", now)
           [] OTHER -> emitPaymentFailed(eventLog, "agent-000", "h2", "Verification failed", now)
    /\ now' = now + 1
    /\ UNCHANGED <<usedTxHashes, ledger, req, verifyTimestamps, hooksRegistered,
                   agentVars, poolVars>>

\* EventEmitter.getMetrics: the events of the log counted by type
getMetrics(log) ==
    LET count(type) == Cardinality({i \in 1..Len(log) : log[i].type = type})
    IN [totalPayments |-> count("payment_submitted"),
        successfulPayments |-> count("payment_confirmed"),
        failedPayments |-> count("payment_failed"),
        totalRequests |-> count("request_served"),
        uniqueAgents |-> {log[i].agentId : i \in 1..Len(log)} \ {""}]

\* no dashboard is connected
EmitEvent ==
    /\ EmitStep
    /\ UNCHANGED metricVars

NextEmit == EmitEvent

(***************************************************************************)
(* The dashboard: useEventStream keeps the events received, useMetrics     *)
(* counts them.  The current throughput (a timer of its own) is left out.  *)
(***************************************************************************)
\* useEventStream, ws.onmessage for a single event: [...prev, message].slice(-500)
onMessage(events, message) == LastN(Append(events, message), EventBufferSize)

\* the AgentStatus useMetrics creates for an agent it has not seen
NewAgentStatus(event) ==
    [totalRequests |-> 0, successfulRequests |-> 0, failedRequests |-> 0,
     totalLatencyMs |-> 0, lastSeen |-> event.timestamp, lastStatus |-> "pending"]

\* isMempoolError: /transaction already in mempool|already known/i
isMempoolError(message) ==
    message \in {MsgInMempool, MsgAlreadyKnown, MsgAlreadyKnownRaw}

\* Variant: the sample shifted out stays in the sum
pushLatencyKeepSum(c, latencyMs) ==
    LET l == Append(c.latencies, latencyMs)
    IN IF Len(l) > MAX_LATENCY_SAMPLES
       THEN [c EXCEPT !.latencies = Tail(l),
                      !.latencySum = @ + latencyMs]
       ELSE [c EXCEPT !.latencies = l, !.latencySum = @ + latencyMs]

\* c.latencies.push(latencyMs) with the cap: the oldest sample is shifted out
pushLatency(c, latencyMs) ==
    LET l == Append(c.latencies, latencyMs)
    IN IF Len(l) > MAX_LATENCY_SAMPLES
       THEN [c EXCEPT !.latencies = Tail(l),
                      !.latencySum = @ + latencyMs - Head(l)]
       ELSE [c EXCEPT !.latencies = l, !.latencySum = @ + latencyMs]

\* the body of useMetrics' loop for one event
processEvent(c, event) ==
    IF event.agentId = "" THEN c
    ELSE
    LET id == event.agentId
        known == IF id \in DOMAIN c.agents THEN c.agents
                 ELSE MapSet(c.agents, id, NewAgentStatus(event))
        agent == [known[id] EXCEPT !.lastSeen = event.timestamp]
    IN CASE event.type = "request_served" ->
              LET counted == [c EXCEPT
                      !.totalRequests = @ + 1,
                      !.successfulRequests = @ + 1,
                      !.agents = MapSet(known, id,
                          [agent EXCEPT !.totalRequests = @ + 1,
                                        !.successfulRequests = @ + 1,
                                        !.lastStatus = "success",
                                        !.totalLatencyMs = @ + event.latencyMs])]
              IN IF event.latencyMs # 0 THEN pushLatency(counted, event.latencyMs)
                 ELSE counted
         [] event.type \in {"payment_failed", "error"} ->
              [c EXCEPT
                  !.totalRequests = @ + 1,
                  !.failedRequests = @ + 1,
                  !.mempoolErrors = IF isMempoolError(event.error) THEN @ + 1 ELSE @,
                  !.agents = MapSet(known, id,
                      [agent EXCEPT !.failedRequests = @ + 1,
                                    !.lastStatus = "failed"])]
         [] event.type = "payment_submitted" ->
              [c EXCEPT !.agents = MapSet(known, id, [agent EXCEPT !.lastStatus = "pending"])]
         [] OTHER -> [c EXCEPT !.agents = MapSet(known, id, agent)]

\* for (let i = startIdx; i < events.length; i++), i counted from 1 here
RECURSIVE processFrom(_, _, _)
processFrom(c, events, i) ==
    IF i > Len(events) THEN c
    ELSE processFrom(processEvent(c, events[i]), events, i + 1)

\* useMetrics' effect on a change of events: when the array is shorter than
\* what was processed only processedCount is adjusted; else the events from
\* processedCount on are counted
useMetricsEffect(c, events) ==
    IF Len(events) < c.processedCount
    THEN [c EXCEPT !.processedCount = Len(events)]
    ELSE [processFrom(c, events, c.processedCount + 1) EXCEPT
             !.processedCount = Len(events)]

\* the buckets of the latency histogram: <50, <100, <200, <500, the rest
latencyHistogram(latencies) ==
    LET count(lo, hi) ==
            Cardinality({i \in 1..Len(latencies) : latencies[i] >= lo /\ latencies[i] < hi})
    IN <<count(0, 50), count(50, 100), count(100, 200), count(200, 500),
         Cardinality({i \in 1..Len(latencies) : latencies[i] >= 500})>>

\* what setMetrics is given: the counters, the rounded rates (successRate in
\* tenths of a percent), the percentiles, the histogram, the agents
metricsOf(c) ==
    LET sorted == sortAscending(c.latencies)
        n == Len(sorted)
    IN [totalRequests |-> c.totalRequests,
        successfulRequests |-> c.successfulRequests,
        failedRequests |-> c.failedRequests,
        mempoolErrors |-> c.mempoolErrors,
        successRateTenths |->
            IF c.totalRequests > 0
            THEN (2000 * c.successfulRequests + c.totalRequests) \div (2 * c.totalRequests)
            ELSE 0,
        avgLatencyMs |-> IF n > 0 THEN (2 * c.latencySum + n) \div (2 * n) ELSE 0,
        p50LatencyMs |-> percentile(sorted, 50),
        p95LatencyMs |-> percentile(sorted, 95),
        p99LatencyMs |-> percentile(sorted, 99),
        agents |-> c.agents,
        latencyHistogram |-> latencyHistogram(c.latencies)]

\* the server emits an event and broadcasts it; the dashboard appends it to
\* its events and the effect of useMetrics runs on the new array.
\* dash.replay is a second aggregator, empty at first, whose events array is
\* the server's full event log.
DeliverEvent ==
    /\ now < MaxDelivered
    /\ Len(eventLog) < maxLogSize
    /\ EmitStep
    /\ LET events == onMessage(dash.events, eventLog'[Len(eventLog')])
       IN dash' = [events |-> events,
                   c |-> useMetricsEffect(dash.c, events),
                   replay |-> useMetricsEffect(dash.replay, eventLog')]
    /\ UNCHANGED <<bus, txAgentMap, collector, observed>>

NextDash == DeliverEvent

vars == <<usedTxHashes, now, ledger, req, eventLog, verifyTimestamps,
          hooksRegistered,
          nextNonce, wk, chainNonce, startNonce, claimed, resynced, sendFailed,
          presented, reported,
          pool, faucetTxs, agentState, obs,
          collector, observed, dash, bus, txAgentMap>>

\* Server side, wired as in the server's tests (facilitator and middleware,
\* no event hooks): the agent is not started
Init ==
    /\ InitServer
    /\ ~hooksRegistered
    /\ InitAgent
    /\ chainNonce = 0
    /\ InitPool
    /\ pool.config.agentCount = 1

\* Server side, wired as in the server's main module (event hooks
\* registered), on a ledger holding one transfer of 100 and one of 300;
\* the requests are handled within one reading of the clock
InitHooks ==
    /\ InitServer
    /\ hooksRegistered
    /\ ledger = [h \in Hashes |->
                   IF h = "h1" THEN PaidEcho
                   ELSE LedgerTx("success", "0xBob", TokenTransferCalldata(TreasuryId, 300))]
    /\ InitAgent
    /\ chainNonce = 0
    /\ InitPool
    /\ pool.config.agentCount = 1

\* Agent side: no request reaches the server
InitA ==
    /\ InitAgent
    /\ InitServer
    /\ ~hooksRegistered
    /\ ledger = [h \in Hashes |-> IF h = "h1" THEN PaidEcho ELSE NoTx]
    /\ InitPool
    /\ pool.config.agentCount = 1

NextAgent ==
    \/ \E w \in Workers : SubmitPayment(w)
    \/ \E w \in Workers : LedgerCount(w)
    \/ \E w \in Workers : CountResolved(w)
    \/ \E w \in Workers : SendAccepted(w)
    \/ \E w \in Workers : SendThrows(w)
    \/ \E w \in Workers : ResyncResolved(w)
    \/ \E w \in Workers : ReceiptResolved(w)

SpecAgent == InitA /\ [][NextAgent]_vars

\* The agent once its first worker has read the pending count and claimed
\* its nonce, the other workers not yet in submitPayment: the counter is set
InitRollback ==
    /\ chainNonce \in 0..MaxStartNonce
    /\ startNonce = chainNonce
    /\ nextNonce = <<chainNonce + 1>>
    /\ wk = [w \in Workers |->
               IF w = 1 THEN [IdleWorker EXCEPT !.pc = "awaitSend", !.nonce = chainNonce]
               ELSE IdleWorker]
    /\ claimed = <<chainNonce>>
    /\ resynced = FALSE
    /\ sendFailed = FALSE
    /\ presented = <<>>
    /\ reported = {}
    /\ InitServer
    /\ ~hooksRegistered
    /\ ledger = [h \in Hashes |-> IF h = "h1" THEN PaidEcho ELSE NoTx]
    /\ InitPool
    /\ pool.config.agentCount = 1

\* with the counter set no worker awaits the first getTransactionCount
NextRollback ==
    \/ \E w \in Workers : SubmitPayment(w)
    \/ \E w \in Workers : SendAccepted(w)
    \/ \E w \in Workers : SendThrows(w)
    \/ \E w \in Workers : ResyncResolved(w)
    \/ \E w \in Workers : ReceiptResolved(w)

SpecRollback == InitRollback /\ [][NextRollback]_vars

Next ==
    \/ \E r \in Reqs : Arrive(r)
    \/ \E r \in Reqs : VerifyStart(r)
    \/ \E r \in Reqs : VerifyReceipt(r)
    \/ \E r \in Reqs : VerifyTx(r)
    \/ \E r \in Reqs : HandlerSuccess(r)
    \/ \E r \in Reqs : HandlerFailure(r)
    \/ \E r \in Reqs : SettleStart(r)
    \/ \E r \in Reqs : SettleFinish(r)
    \/ Tick

Spec == Init /\ [][Next]_vars

\* an account that is not the treasury's
OtherAccountId == TreasuryId + 1

\* a successful transfer of 100 to that other account
PaidOther == LedgerTx("success", "0xBob", TokenTransferCalldata(OtherAccountId, 100))

\* The server on a ledger whose second transaction pays another recipient
InitOther ==
    /\ usedTxHashes = <<>>
    /\ now = 0
    /\ ledger = [h \in Hashes |-> IF h = "h1" THEN PaidEcho ELSE PaidOther]
    /\ req = [r \in Reqs |-> IdleReq]
    /\ eventLog = <<>>
    /\ verifyTimestamps = <<>>
    /\ hooksRegistered = FALSE
    /\ InitAgent
    /\ chainNonce = 0
    /\ InitPool
    /\ pool.config.agentCount = 1

SpecOther == InitOther /\ [][Next]_vars

NextHooks ==
    \/ \E r \in Reqs : Arrive(r)
    \/ \E r \in Reqs : VerifyStart(r)
    \/ \E r \in Reqs : VerifyReceipt(r)
    \/ \E r \in Reqs : VerifyTx(r)
    \/ \E r \in Reqs : HandlerSuccess(r)
    \/ \E r \in Reqs : HandlerFailure(r)
    \/ \E r \in Reqs : SettleStart(r)
    \/ \E r \in Reqs : SettleFinish(r)

SpecHooks == InitHooks /\ [][NextHooks]_vars

\* what the middleware and the hooks do with request r once it has arrived
RequestStep(r) ==
    \/ VerifyStart(r)
    \/ VerifyReceipt(r)
    \/ VerifyTx(r)
    \/ HandlerSuccess(r)
    \/ HandlerFailure(r)
    \/ SettleStart(r)
    \/ SettleFinish(r)

NextSweep ==
    \/ \E r \in Reqs : ArriveWithAgent(r)
    \/ \E r \in Reqs : RequestStep(r)
    \/ Sweep

\* The server as index.ts starts it.  The timer keeps firing and a request
\* that has arrived is carried through: every await of the middleware
\* resolves or throws.
SpecSweep ==
    /\ InitHooks
    /\ [][NextSweep]_vars
    /\ WF_vars(Sweep)
    /\ \A r \in Reqs : WF_vars(RequestStep(r))

SpecPool == InitP /\ [][NextPool]_vars

SpecRun == InitRun /\ [][NextRun]_vars

\* the collector of a started pool of one agent
InitCollector ==
    /\ InitRun
    /\ pool.config.agentCount = 1

SpecPercentile == InitCollector /\ [][NextPercentile]_vars

SpecMetrics == InitCollector /\ [][NextMetrics]_vars

SpecDash == InitHooks /\ [][NextDash]_vars

(***************************************************************************)
(* The event emitter with WebSocket clients.  bus.sent[s] is what was sent *)
(* on the socket of client s since it connected.                           *)
(***************************************************************************)
Subscribers == 1..MaxSubscribers

\* addConnection: the socket joins the connections; when the log is not
\* empty its last 100 events are sent as one history message
addConnection(b, log, s) ==
    [connections |-> b.connections \cup {s},
     sent |-> [b.sent EXCEPT ![s] =
                  IF Len(log) > 0
                  THEN <<[type |-> "history", events |-> LastN(log, HistorySize)]>>
                  ELSE <<>>]]

\* removeConnection; the closed socket's messages are let go
removeConnection(b, s) ==
    [connections |-> b.connections \ {s},
     sent |-> [b.sent EXCEPT ![s] = <<>>]]

\* emit, after the log was updated: the event is sent on every connection;
\* a connection whose send throws is deleted
broadcast(b, event, failing) ==
    [connections |-> b.connections \ failing,
     sent |-> [s \in Subscribers |->
                  IF s \in failing THEN <<>>
                  ELSE IF s \in b.connections THEN Append(b.sent[s], event)
                  ELSE b.sent[s]]]

\* a WebSocket client connects (upgrade on /ws/events)
Connect(s) ==
    /\ s \notin bus.connections
    /\ bus' = addConnection(bus, eventLog, s)
    /\ UNCHANGED <<collector, observed, dash, txAgentMap, serverVars, agentVars, poolVars>>

\* the client's socket closes
Disconnect(s) ==
    /\ s \in bus.connections
    /\ bus' = removeConnection(bus, s)
    /\ UNCHANGED <<collector, observed, dash, txAgentMap, serverVars, agentVars, poolVars>>

\* an event is emitted: logged, then broadcast
BusEmit ==
    /\ now < MaxBusEmits
    /\ EmitStep
    /\ \E failing \in SUBSET bus.connections :
         bus' = broadcast(bus, eventLog'[Len(eventLog')], failing)
    /\ UNCHANGED <<collector, observed, dash, txAgentMap>>

NextBus ==
    \/ \E s \in Subscribers : Connect(s)
    \/ \E s \in Subscribers : Disconnect(s)
    \/ BusEmit

SpecBus == InitHooks /\ [][NextBus]_vars

(***************************************************************************)
(* The two latency buffers near their caps: the collector after n results  *)
(* of agent 0, the dashboard after n request_served events and a           *)
(* clearEvents(), for n = 0, one below the cap, and the cap.               *)
(***************************************************************************)
\* n latencies, none of them a latency of PushedLatencies
Filled(n) == [i \in 1..n |-> (i % 5) + 1]

PushedLatencies == {0, 7}

\* the counters after n request_served events with the latencies Filled(n)
CountersAfter(n) ==
    [NewCounters EXCEPT
        !.totalRequests = n,
        !.successfulRequests = n,
        !.latencies = Filled(n),
        !.latencySum = SumSeq(Filled(n)),
        !.agents = IF n = 0 THEN <<>>
                   ELSE [a \in {"agent-000"} |->
                           [totalRequests |-> n, successfulRequests |-> n,
                            failedRequests |-> 0, totalLatencyMs |-> SumSeq(Filled(n)),
                            lastSeen |-> 0, lastStatus |-> "success"]]]

\* an initialized pool of one agent, but for its counters, next to a server
\* that has seen no request
InitBesideCollector ==
    /\ faucetTxs = [k \in 1..1 |->
                      [FaucetTx(TOKEN_ACCOUNT_CANDIDATES[1], k - 1,
                                DefaultFunding) EXCEPT !.status = "success"]]
    /\ agentState = [a \in AgentIds |-> NewAgent]
    /\ obs = NewObs
    /\ InitServer
    /\ hooksRegistered = FALSE
    /\ ledger = [h \in Hashes |-> IF h = "h1" THEN PaidEcho ELSE NoTx]
    /\ InitAgent
    /\ chainNonce = 0

\* the pool after n successful results of agent 0
PoolAfter(n) ==
    [InitializedPool(1) EXCEPT
        !.metrics = [a \in {0} |->
            [totalRequests |-> n, successfulRequests |-> n, failedRequests |-> 0]]]

InitLatency ==
    /\ \E k \in 0..2 :
         LET n == IF k = 0 THEN 0 ELSE LatenciesCap + k - 2
             m == IF k = 0 THEN 0 ELSE MAX_LATENCY_SAMPLES + k - 2
         IN /\ pool = PoolAfter(n)
            /\ collector = [latencies |-> Filled(n), recentRequests |-> <<>>]
            /\ dash = [events |-> <<>>, c |-> CountersAfter(m), replay |-> NewCounters]
    /\ observed = [results |-> <<>>, poolMetrics |-> <<>>, seen |-> 0, at |-> 0, rank |-> <<>>]
    /\ bus = NewBus
    /\ txAgentMap = <<>>
    /\ InitBesideCollector

\* a result of agent 0 is recorded, a millisecond later than the last
RecordLatency ==
    /\ now < MaxPushes
    /\ \E l \in PushedLatencies :
         LET result == [RequestResult(0, TRUE, FALSE, FALSE) EXCEPT !.latencyMs = l]
         IN /\ pool' = handleAgentResult(pool, result)
            /\ collector' = recordSamples(collector, pool.metrics, result)
            /\ observed' = [observed EXCEPT !.results = Recorded(@, result)]
    /\ now' = now + 1
    /\ UNCHANGED <<bus, txAgentMap, faucetTxs, agentState, obs, dash, usedTxHashes, ledger, req,
                   eventLog, verifyTimestamps, hooksRegistered, agentVars>>

\* a request_served event is emitted and delivered to the dashboard
DeliverServed ==
    /\ now < MaxPushes
    /\ \E l \in PushedLatencies :
         eventLog' = emitRequestServed(eventLog, "agent-000", "/api/transform/echo",
                                       l, "h1", now)
    /\ LET events == onMessage(dash.events, eventLog'[Len(eventLog')])
       IN dash' = [events |-> events,
                   c |-> useMetricsEffect(dash.c, events),
                   replay |-> useMetricsEffect(dash.replay, eventLog')]
    /\ now' = now + 1
    /\ UNCHANGED <<usedTxHashes, ledger, req, verifyTimestamps, hooksRegistered,
                   agentVars, poolVars, collector, observed, bus, txAgentMap>>

NextLatency ==
    \/ RecordLatency
    \/ DeliverServed

SpecLatency == InitLatency /\ [][NextLatency]_vars

(***************************************************************************)
(* percentile on its own: the collector holds n ascending latencies and    *)
(* percentile(sorted, p) is taken for any p of 1..100.                     *)
(***************************************************************************)
Ascending(n) == [i \in 1..n |-> 10 * i]

InitRank ==
    /\ \E n \in 0..MaxSamples :
         /\ pool = PoolAfter(n)
         /\ collector = [latencies |-> Ascending(n), recentRequests |-> <<>>]
    /\ observed = [results |-> <<>>, poolMetrics |-> <<>>, seen |-> 0, at |-> 0, rank |-> <<>>]
    /\ dash = [events |-> <<>>, c |-> NewCounters, replay |-> NewCounters]
    /\ bus = NewBus
    /\ txAgentMap = <<>>
    /\ InitBesideCollector

TakePercentile ==
    /\ \E p \in 1..100 :
         observed' = [observed EXCEPT !.rank =
             <<[p |-> p, value |-> percentile(sortAscending(collector.latencies), p)]>>]
    /\ UNCHANGED <<bus, txAgentMap, collector, dash, serverVars, agentVars, poolVars>>

NextRank == TakePercentile

SpecRank == InitRank /\ [][NextRank]_vars

SpecEmit == InitHooks /\ [][NextEmit]_vars

(***************************************************************************)
(* Properties                                                              *)
(***************************************************************************)
AlreadyUsed == Invalid("Transaction already used")

\* Request r was served: protected route, handler executed, 200 returned
Served(r) ==
    /\ req[r].pc = "done" /\ req[r].route \in ProtectedRoutes
    /\ req[r].handler = "ok" /\ req[r].status = 200

\* Request r was answered 402 + PAYMENT-REQUIRED without running the handler
Rejected402(r) ==
    /\ req[r].pc = "done" /\ req[r].status = 402
    /\ req[r].required # <<>> /\ req[r].handler = "notrun"

\* C1: for every txHash, at most one settle call returns success:true
\* (stated for the time before any TTL can have elapsed).
C1_AtMostOneSettleSuccess ==
    now < TX_HASH_TTL_MS =>
        \A h \in Hashes : Cardinality({r \in Reqs : SettleSucceeded(r, h)}) <= 1

\* C2: among the requests carrying the same txHash at most one is Served
\* (stated for the time before any TTL can have elapsed).
C2_AtMostOneServed ==
    now < TX_HASH_TTL_MS =>
        \A h \in Hashes :
            Cardinality({r \in Reqs : req[r].hasProof /\ req[r].txHash = h /\ Served(r)}) <= 1

\* C3: a verify(h, r) begun after a settle(h) succeeded and before the TTL of
\* that settle's entry elapsed returns AlreadyUsed and the request is
\* answered 402, whatever the route.
C3_ReplayRejected ==
    \A r \in Reqs :
        (req[r].verifyCalled /\ req[r].preSettled) =>
            /\ req[r].vres = AlreadyUsed
            /\ Rejected402(r)
            /\ ~req[r].settleCalled

C3_Witness ==
    \E r1, r2 \in Reqs :
        /\ Served(r1) /\ req[r1].hasProof
        /\ req[r2].txHash = req[r1].txHash /\ req[r2].route # req[r1].route
        /\ req[r2].verifyCalled /\ req[r2].preSettled
        /\ Rejected402(r2)

\* C4: when verify returned Valid and the handler failed, settle is not
\* called for that request and, unless another request settled the hash,
\* the hash is not in usedTxHashes; a request with the same proof on the
\* same route that finds the hash unused verifies Valid again.
C4_NoChargeWithoutDelivery ==
    \A r \in Reqs :
        (req[r].route \in ProtectedRoutes /\ req[r].handler = "failed") =>
            /\ req[r].vres.isValid
            /\ ~req[r].settleCalled /\ req[r].settled = <<>>
            /\ (\A r2 \in Reqs : req[r2].txHash = req[r].txHash => ~req[r2].settleCalled)
                   => req[r].txHash \notin DOMAIN usedTxHashes
            /\ \A r2 \in Reqs :
                   ( /\ req[r2].hasProof /\ req[r2].txHash = req[r].txHash
                     /\ req[r2].route = req[r].route
                     /\ req[r2].pre = "absent" /\ ~req[r2].rpcFailed
                     /\ req[r2].pc \in {"executing", "settle", "awaitSettle", "done"} )
                   => req[r2].vres.isValid

\* the handler of request 1 failed, request 2 retried the same proof on the
\* same route afterwards and was served with a successful settle
C4_Witness ==
    /\ req[1].route \in ProtectedRoutes /\ req[1].handler = "failed"
    /\ req[2].txHash = req[1].txHash /\ req[2].route = req[1].route
    /\ Served(2) /\ SettleSucceeded(2, req[2].txHash)
    /\ req[2].pre = "absent"

\* C5: the handler of a protected request runs only after its verify
\* returned Valid, settle is called only after the handler succeeded, and a
\* hash is in usedTxHashes only if the handler of a request carrying it
\* succeeded and that request called settle.
C5_VerifyHandlerSettleOrder ==
    /\ \A r \in Reqs :
          /\ (req[r].route \in ProtectedRoutes /\ req[r].handler # "notrun")
                 => (req[r].verifyCalled /\ req[r].vres.isValid)
          /\ req[r].settleCalled => req[r].handler = "ok"
    /\ \A h \in DOMAIN usedTxHashes :
          \E r \in Reqs : req[r].txHash = h /\ req[r].handler = "ok" /\ req[r].settleCalled

C5_Witness ==
    \E r \in Reqs :
        /\ Served(r) /\ req[r].verifyCalled /\ req[r].settleCalled
        /\ req[r].txHash \in DOMAIN usedTxHashes

\* Two verify calls of the same unsettled hash for the same requirement,
\* neither hit by a ledger failure
SameVerify(r1, r2) ==
    /\ req[r1].hasProof /\ req[r2].hasProof
    /\ req[r1].txHash = req[r2].txHash /\ req[r1].route = req[r2].route
    /\ req[r1].vres # Pending /\ req[r2].vres # Pending
    /\ req[r1].pre = "absent" /\ req[r2].pre = "absent"
    /\ ~req[r1].rpcFailed /\ ~req[r2].rpcFailed

\* C6: no step of verify adds a hash to usedTxHashes (the hashes after each
\* of its steps are among those before it), and two verify calls of the same
\* unsettled hash against the unchanged ledger return the same result.
C6_VerifySideEffectFree ==
    /\ \A r \in Reqs : ~req[r].verifyAdded
    /\ \A r1, r2 \in Reqs : SameVerify(r1, r2) => req[r1].vres = req[r2].vres

C6_Witness ==
    /\ SameVerify(1, 2)
    /\ req[1].vres.isValid /\ req[1].handler = "failed"
    /\ req[2].vres.isValid
    /\ usedTxHashes = <<>>

\* C7: a verify(h) that finds the entry of h younger than the TTL returns
\* AlreadyUsed; one that finds it older than the TTL does not, and has
\* evicted it.
C7_TtlEviction ==
    \A r \in Reqs :
        req[r].verifyCalled =>
            /\ req[r].pre = "fresh" => req[r].vres = AlreadyUsed
            /\ req[r].pre = "expired" => (req[r].vres # AlreadyUsed /\ ~req[r].postUsed)

C7_Witness ==
    \E r \in Reqs :
        /\ req[r].verifyCalled /\ req[r].pre = "expired"
        /\ req[r].vres.isValid /\ ~req[r].postUsed

\* C8: an entry whose TTL has not elapsed is still present after every
\* step, and its timestamp changes only by a settle of that same hash.
C8_EntryStaysUntilTtl ==
    [][\A h \in DOMAIN usedTxHashes :
          ~(now - usedTxHashes[h] > TX_HASH_TTL_MS) =>
              /\ h \in DOMAIN usedTxHashes'
              /\ usedTxHashes'[h] # usedTxHashes[h] =>
                     \E r \in Reqs : SettleStart(r) /\ req[r].txHash = h]_vars

\* two hashes are held, the second one inserted later than the first
C8_Witness ==
    /\ DOMAIN usedTxHashes = Hashes
    /\ usedTxHashes["h1"] < usedTxHashes["h2"]
    /\ \E r \in Reqs : req[r].txHash = "h2" /\ req[r].verifyCalled /\ Served(r)

\* C9: with no resynchronisation (and no failed submission), the nonces
\* claimed by the workers are pairwise distinct and form the range
\* startNonce .. startNonce + M - 1.
C9_DistinctContiguousNonces ==
    (~resynced /\ ~sendFailed) =>
        /\ \A i, j \in 1..Len(claimed) : i # j => claimed[i] # claimed[j]
        /\ {claimed[i] : i \in 1..Len(claimed)} = startNonce..(startNonce + Len(claimed) - 1)

\* C10: a request to a protected route without PAYMENT-SIGNATURE ends with
\* 402 and a PAYMENT-REQUIRED header of {protocolVersion, resource,
\* accepts:[requirement]}; no handler, no verify, no settle.
C10_RequirePayment ==
    \A r \in Reqs :
        (req[r].pc # "idle" /\ req[r].route \in ProtectedRoutes /\ ~req[r].hasProof) =>
            /\ Rejected402(r)
            /\ LET p == DecodeHeader(req[r].required[1])
               IN /\ p.protocolVersion = X402Version
                  /\ p.resource = req[r].route
                  /\ Len(p.accepts) > 0
                  /\ p.accepts = <<Requirement(req[r].route)>>
            /\ ~req[r].verifyCalled /\ ~req[r].settleCalled
            /\ req[r].settled = <<>>

C10_Witness ==
    \E r \in Reqs :
        /\ req[r].route = "POST /api/transform/hash" /\ ~req[r].hasProof
        /\ Rejected402(r)
        /\ DecodeHeader(req[r].required[1]).accepts[1].amount = 200

\* The verify of request r has ended
VerifyEnded(r) ==
    req[r].verifyCalled /\ req[r].pc \notin {"verify", "awaitReceipt", "awaitTx"}

\* C11: a request to a protected route whose proof verified Valid and whose
\* handler succeeded, once answered, has status 200, the handler's body and
\* a PAYMENT-RESPONSE header that decodes to a SettleResult with success
\* true and transaction equal to the proof's txHash.
C11_ServedCarriesSettleResult ==
    \A r \in Reqs :
        ( /\ req[r].pc = "done" /\ req[r].route \in ProtectedRoutes
          /\ req[r].hasProof /\ req[r].vres.isValid /\ req[r].handler = "ok" ) =>
            /\ req[r].status = 200
            /\ req[r].body = HandlerBody(req[r].route)
            /\ req[r].settled # <<>>
            /\ LET sr == DecodeHeader(req[r].settled[1])
               IN sr.success /\ sr.transaction = req[r].txHash

\* served on the 200-priced route with the 300-paying transaction, the
\* payer taken from the receipt
C11_Witness ==
    \E r \in Reqs :
        /\ Served(r) /\ req[r].route = "POST /api/transform/hash"
        /\ req[r].txHash = "h2" /\ ~req[r].settleRpcFailed
        /\ DecodeHeader(req[r].settled[1]).payer = "0xBob"

\* Per ledger transaction: the amount its calldata carries at the offset
\* verify reads, and whether the calldata has the length verify asks for
PaidAmount == [t \in LedgerTxs |-> DecodeTransferAmount(t.input)]
LongEnough == [t \in LedgerTxs |-> HexLength(t.input) >= MinCalldataHexLen]

\* What is wrong with the proof of request r, seen from the ledger
BadProof(r) ==
    LET h == req[r].txHash
    IN \/ h = ""
       \/ req[r].postUsed
       \/ req[r].rpcFailed
       \/ ~ledger[h].present
       \/ ledger[h].status # "success"
       \/ ~LongEnough[ledger[h]]
       \/ PaidAmount[ledger[h]] < PriceOf(req[r].route)

C13_UnprotectedBypass ==
    [][\A r \in Reqs :
          (req'[r] # req[r] /\ req'[r].route \in UnprotectedRoutes) =>
              /\ req'[r].pc = "done" /\ req'[r].handler # "notrun"
              /\ req'[r].status = (IF req'[r].handler = "ok" THEN 200 ELSE 500)
              /\ req'[r].body =
                    (IF req'[r].handler = "ok" THEN HandlerBody(req'[r].route) ELSE <<"error">>)
              /\ req'[r].required = <<>> /\ req'[r].settled = <<>>
              /\ ~req'[r].verifyCalled /\ ~req'[r].settleCalled
              /\ usedTxHashes' = usedTxHashes
              /\ eventLog' = eventLog
              /\ verifyTimestamps' = verifyTimestamps]_vars

\* the health route answered 200 although it carried a proof whose hash is
\* held in usedTxHashes
C13_Witness ==
    \E r \in Reqs :
        /\ req[r].route \in UnprotectedRoutes /\ req[r].hasProof
        /\ req[r].pc = "done" /\ req[r].status = 200
        /\ req[r].txHash \in DOMAIN usedTxHashes

\* C14: verify and settle never throw: a ledger failure during verify gives
\* Invalid("Verification failed"), a 402, and no new hash in usedTxHashes; a
\* ledger failure during settle still gives a SettleResult (payer falling
\* back to the txHash).
C14_NeverThrows ==
    \A r \in Reqs :
        /\ ~req[r].threw
        /\ req[r].rpcFailed =>
              /\ req[r].vres = Invalid("Verification failed")
              /\ Rejected402(r)
              /\ ~req[r].verifyAdded
              /\ ~req[r].settleCalled
        /\ (req[r].settleRpcFailed /\ req[r].pc = "done") =>
              /\ req[r].settled # <<>>
              /\ LET sr == DecodeHeader(req[r].settled[1])
                 IN sr.success /\ sr.transaction = req[r].txHash
                    /\ sr.payer = req[r].txHash

C14_Witness ==
    \E r1, r2 \in Reqs :
        /\ req[r1].rpcFailed /\ Rejected402(r1) /\ req[r1].payer = "0xAlice"
        /\ req[r2].settleRpcFailed /\ Served(r2)

\* The ledger holds, for request r, a successful transfer of less than the
\* route's price
Underpaid(r) ==
    LET h == req[r].txHash
    IN /\ h # "" /\ ledger[h].present /\ ledger[h].status = "success"
       /\ LongEnough[ledger[h]]
       /\ PaidAmount[ledger[h]] < PriceOf(req[r].route)

EventsAt(type, h, n) ==
    {i \in 1..n : eventLog[i].type = type /\ eventLog[i].txHash = h}

\* C16: per hash h, as many payment_submitted events as Valid verifies, as
\* many payment_confirmed and request_served events as returned settles
\* (so none for a failed handler); payment_confirmed is directly followed by
\* the request_served of the same hash; and in every prefix of the log the
\* payment_confirmed events of h are not more than its payment_submitted.
C16_EventOrder ==
    \A h \in Hashes :
        LET n == Len(eventLog)
            validReqs == {r \in Reqs : req[r].txHash = h /\ req[r].vres.isValid}
            settledReqs == {r \in Reqs : req[r].txHash = h /\ req[r].settled # <<>>}
        IN /\ Cardinality(EventsAt("payment_submitted", h, n)) = Cardinality(validReqs)
           /\ Cardinality(EventsAt("payment_confirmed", h, n)) = Cardinality(settledReqs)
           /\ Cardinality(EventsAt("request_served", h, n)) = Cardinality(settledReqs)
           /\ \A r \in settledReqs : req[r].handler = "ok"
           /\ \A i \in EventsAt("payment_confirmed", h, n) : i + 1 \in EventsAt("request_served", h, n)
           /\ \A i \in EventsAt("request_served", h, n) : i - 1 \in EventsAt("payment_confirmed", h, n)
           /\ \A k \in 1..n :
                 Cardinality(EventsAt("payment_confirmed", h, k))
                     <= Cardinality(EventsAt("payment_submitted", h, k))

\* one hash, verified Valid twice: one handler failed, the other request
\* was served
C16_Witness ==
    /\ Len(eventLog) = 4
    /\ EventsAt("payment_submitted", "h1", 4) = {1, 2}
    /\ EventsAt("payment_confirmed", "h1", 4) = {3}
    /\ EventsAt("request_served", "h1", 4) = {4}
    /\ \E r \in Reqs : req[r].txHash = "h1" /\ req[r].handler = "failed"

\* C17: every Invalid verify result for a presented proof has a
\* payment_failed event of that txHash in the log.
C17_PaymentFailedOnInvalid ==
    \A r \in Reqs :
        (VerifyEnded(r) /\ req[r].hasProof /\ req[r].txHash # "" /\ ~req[r].vres.isValid) =>
            \E i \in 1..Len(eventLog) :
                /\ eventLog[i].type = "payment_failed"
                /\ eventLog[i].txHash = req[r].txHash

(***************************************************************************)
(* The agent pool                                                          *)
(***************************************************************************)
\* the ledger executed every faucet transaction successfully and no RPC
\* call of initialize() failed
AllTransactionsSucceeded ==
    /\ ~obs.rpcThrew
    /\ \A k \in 1..Len(faucetTxs) : faucetTxs[k].status = "success"

\* the faucet's transfers to the account of agent a
TransfersTo(a) == {k \in 1..Len(faucetTxs) : faucetTxs[k].recipient = a}

ConfiguredAgents == 0..(pool.config.agentCount - 1)

\* C18: with N configured agents and a ledger on which every transaction
\* succeeds, initialize() ends with exactly N agents in the pool, exactly N
\* agents registered in the metrics collector, and exactly one transfer of
\* fundingAmount to each agent.
C18_InitializeFundsEachOnce ==
    (pool.initPc = "initialized" /\ AllTransactionsSucceeded) =>
        /\ Len(pool.agents) = pool.config.agentCount
        /\ {pool.agents[k] : k \in 1..Len(pool.agents)} = ConfiguredAgents
        /\ DOMAIN pool.metrics = ConfiguredAgents
        /\ \A a \in ConfiguredAgents :
              /\ Cardinality(TransfersTo(a)) = 1
              /\ \A k \in TransfersTo(a) :
                    /\ faucetTxs[k].amount = pool.config.fundingAmount
                    /\ faucetTxs[k].status = "success"

\* initialize() of the largest pool has ended on an all-success ledger
C18_Witness ==
    /\ pool.initPc = "initialized"
    /\ AllTransactionsSucceeded
    /\ pool.config.agentCount = MaxAgents
    /\ Len(pool.fundingTxHashes) = MaxAgents - 1

\* the worker loops that are inside makeRequest
Requesting ==
    {aw \in AgentIds \X Loops : agentState[aw[1]].loop[aw[2]].pc = "requesting"}

\* C19: once a stop() that followed start() has resolved, every worker
\* loop of every agent has ended, every request that was begun has been
\* finished and delivered, and after that moment no request was begun and
\* no metrics snapshot was delivered.
C19_StopDrains ==
    obs.stopResolved =>
        /\ \A a \in AgentIds : \A w \in Loops :
              agentState[a].loop[w].pc \in {"none", "exited"}
        /\ obs.delivered = obs.begun
        /\ ~obs.beganAfterStop
        /\ ~obs.snapshotAfterStop

RECURSIVE SumRequests(_, _)
SumRequests(metrics, ids) ==
    IF ids = {} THEN 0
    ELSE LET a == CHOOSE x \in ids : TRUE
         IN metrics[a].totalRequests + SumRequests(metrics, ids \ {a})

\* some step of the request failed under outcome o
StepFailed(o) ==
    \/ o.initial \in {"throws", "notOk", "402noHeader", "402badHeader"}
    \/ o.initial = "402" /\ (o.pay = "throws" \/ o.retry # "ok")

\* C20: every request a worker began has ended with exactly one
\* RequestResult at the result handler (a failed one, carrying an error
\* text, when a step failed), and as long as its agent is running a started
\* worker is in its loop: sleeping before the next request or in a request.
C20_EveryIterationDelivers ==
    /\ obs.delivered = obs.begun - Cardinality(Requesting)
    /\ SumRequests(pool.metrics, DOMAIN pool.metrics) = obs.delivered
    /\ \A a \in AgentIds : \A w \in Loops :
          (agentState[a].running /\ agentState[a].loop[w].pc # "none") =>
              agentState[a].loop[w].pc \in {"sleeping", "requesting"}
    /\ \A a \in AgentIds : \A o \in Outcomes :
          LET result == makeRequest(a, o)
          IN /\ ~result.rejects
             /\ result.agentId = a
             /\ result.success <=> ~StepFailed(o)
             /\ StepFailed(o) => result.error # ""

\* a failed result was recorded for the only agent, which is still running
\* and whose worker is in its next request
C20_Witness ==
    /\ pool.config.agentCount = 1
    /\ pool.metrics[0].failedRequests = 1
    /\ agentState[0].running
    /\ Requesting # {}
    /\ obs.begun = 2

(***************************************************************************)
(* The agent's payments                                                    *)
(***************************************************************************)
\* worker w leaves its sendTransaction in this step with an error message
SendFailedWith(w) ==
    wk[w].pc = "awaitSend" /\ wk'[w].pc # "awaitSend" /\ wk'[w].msg # ""

\* C21: a sendTransaction that fails with a duplicate-submission error is
\* not a failure of the payment: the worker goes on to wait for the receipt
\* of the recovered hash, nothing is reported, and the counter keeps the
\* claimed nonce consumed.
C21_DuplicateRecovered ==
    [][\A w \in Workers :
         (SendFailedWith(w) /\ IsDuplicateMsg(wk'[w].msg)) =>
             /\ wk'[w].pc = "awaitReceipt"
             /\ wk'[w].hash # <<>>
             /\ reported' = reported
             /\ nextNonce' = nextNonce]_vars

\* C22: when the resynchronisation after "nonce too high" ends, the
\* counter is the ledger's pending transaction count and no failed
\* RequestResult has been reported for the error.
C22_NonceTooHighNotSurfaced ==
    [][\A w \in Workers :
         (wk[w].pc = "awaitResync" /\ wk'[w].pc # "awaitResync") =>
             /\ nextNonce' = <<chainNonce>>
             /\ reported' = reported]_vars

\* C23: when sendTransaction fails with an error that is neither a
\* sequencing error nor a duplicate submission, the counter becomes the
\* nonce n claimed for that payment, and a payment that starts from a set
\* counter claims the counter's value.
C23_OtherErrorRollsBack ==
    [][\A w \in Workers :
         /\ (SendFailedWith(w) /\ ~MentionsNonce(wk'[w].msg) /\ ~IsDuplicateMsg(wk'[w].msg)) =>
                 /\ nextNonce' = <<wk[w].nonce>>
                 /\ wk'[w].pc = "idle"
         /\ (wk[w].pc = "idle" /\ wk'[w].pc = "awaitSend") =>
                 wk'[w].nonce = nextNonce[1]]_vars

\* a payment failed with another error, its nonce went back to the counter
\* and another worker has claimed it again
C23_Witness ==
    \E w, v \in Workers :
        /\ w # v
        /\ wk[w].pc = "idle" /\ wk[w].msg = MsgOther
        /\ wk[v].pc = "awaitSend" /\ wk[v].nonce = wk[w].nonce
        /\ nextNonce = <<wk[w].nonce + 1>>

\* C28: the claim reads the counter and stores counter + 1 in one step of
\* the worker: in the step that takes worker w into sendTransaction with
\* nonce n, n is the counter's value at the start of the step (the count
\* just fetched, for a first payment), the counter is n + 1 at its end, and
\* no other worker moves.
C28_ClaimIsAtomic ==
    [][\A w \in Workers :
         (wk[w].pc # "awaitSend" /\ wk'[w].pc = "awaitSend") =>
             /\ wk'[w].nonce = (IF wk[w].pc = "countReady" THEN wk[w].count[1]
                                ELSE nextNonce[1])
             /\ nextNonce' = <<wk'[w].nonce + 1>>
             /\ \A v \in Workers \ {w} : wk'[v] = wk[v]]_vars

\* two workers are in sendTransaction with consecutive nonces, claimed
\* from the set counter
C28_Witness ==
    \E w, v \in Workers :
        /\ wk[w].pc = "awaitSend" /\ wk[v].pc = "awaitSend"
        /\ wk[v].nonce = wk[w].nonce + 1
        /\ nextNonce = <<wk[v].nonce + 1>>

\* C29: no txHash is carried as payment proof by more than one request of
\* the agent.
C29_HashPresentedOnce ==
    \A h \in DOMAIN presented : presented[h] <= 1

(***************************************************************************)
(* The event log                                                           *)
(***************************************************************************)
\* the length of the log after n emissions: it grows to maxLogSize, and
\* the emission that makes it longer leaves the newest half
LogLengthAfter(n) ==
    LET half == maxLogSize \div 2
    IN IF n <= maxLogSize THEN n
       ELSE half + ((n - maxLogSize - 1) % (maxLogSize - half + 1))

\* C24: after any number of emissions the log holds at most maxLogSize
\* events, they are the last ones emitted, in emission order and unchanged,
\* and the log is cut to its newest half exactly when an append takes it
\* past maxLogSize.
C24_LogBoundedSuffix ==
    /\ Len(eventLog) <= maxLogSize
    /\ Len(eventLog) = LogLengthAfter(now)
    /\ \A i \in 1..Len(eventLog) :
          /\ eventLog[i].timestamp = now - Len(eventLog) + i - 1
          /\ eventLog[i].type =
                CASE eventLog[i].timestamp % 4 = 0 -> "payment_submitted"
                  [] eventLog[i].timestamp % 4 = 1 -> "payment_confirmed"
                  [] eventLog[i].timestamp % 4 = 2 -> "request_served"
                  [] OTHER -> "payment_failed"

\* the emission after the log was full has just cut it to its newest half
C24_Witness ==
    /\ now = maxLogSize + 1
    /\ Len(eventLog) = maxLogSize \div 2
    /\ eventLog[1].timestamp = now - (maxLogSize \div 2)

\* every latency sample has been recorded and getPoolMetrics ran after that
AllSamplesReported ==
    /\ observed.poolMetrics # <<>>
    /\ observed.seen = Cardinality(LatencySamples)
    /\ {collector.latencies[i] : i \in 1..Len(collector.latencies)} = LatencySamples

\* C27 (as stated): for the samples 10, 20, 30, 40, 50, 100, 200 the reported
\* p50 is 30 and the reported p95 is 200.
C27_P50Is30 ==
    AllSamplesReported =>
        /\ observed.poolMetrics[1].p50LatencyMs = 30
        /\ observed.poolMetrics[1].p95LatencyMs = 200

\* C27 (amended): for the samples 10, 20, 30, 40, 50, 100, 200, recorded in
\* any order, the reported p50 is 40, the 4th ascending value
\* (index ceil(0.5*7)-1 = 3), and the reported p95 is 200, the 7th value
\* (index ceil(0.95*7)-1 = 6).
C27_P50IsFourthValue ==
    AllSamplesReported =>
        /\ observed.poolMetrics[1].p50LatencyMs = 40
        /\ observed.poolMetrics[1].p50LatencyMs = sortAscending(collector.latencies)[4]
        /\ observed.poolMetrics[1].p95LatencyMs = 200
        /\ observed.poolMetrics[1].p95LatencyMs = sortAscending(collector.latencies)[7]

\* the seven samples were recorded in an order that is not ascending
C27_Witness ==
    /\ AllSamplesReported
    /\ collector.latencies # sortAscending(collector.latencies)

\* the results that had been recorded when getPoolMetrics last ran and that
\* satisfy Counted
ResultsSeen(Counted(_)) ==
    {i \in 1..observed.seen : Counted(observed.results[i])}

InWindow(r) == r.timestamp > observed.at - TPS_WINDOW_MS

\* C26: the reported current throughput is the number of successful requests
\* whose timestamp lies within the 1000 ms before the recomputation; failed
\* requests and older requests are not counted.
C26_TpsCountsSuccessful ==
    observed.poolMetrics # <<>> =>
        observed.poolMetrics[1].currentTps =
            Cardinality(ResultsSeen(LAMBDA r : r.success /\ InWindow(r)))

\* C25: the dashboard's output after the events delivered so far is the
\* output of an empty aggregator that is given the full event log.
C25_ReplayEqualsLive ==
    metricsOf(dash.c) = metricsOf(dash.replay)

\* the amount argument of a Token::transfer calldata: the last 16 bytes,
\* little-endian, in the 52-byte layout as in the 36-byte one
RECURSIVE LeValue(_)
LeValue(bytes) == IF bytes = <<>> THEN 0 ELSE Head(bytes) + 256 * LeValue(Tail(bytes))

TransferredAmount(input) == LeValue(SubSeq(input, Len(input) - 15, Len(input)))

\* the outcome the decision order of C30 gives for the proof of request r
OutcomeInOrder(r) ==
    LET h == req[r].txHash
    IN IF h = "" THEN Invalid("Missing transaction hash")
       ELSE IF req[r].postUsed THEN AlreadyUsed
       ELSE IF ~ledger[h].present THEN Invalid("Transaction not found")
       ELSE IF ledger[h].status # "success" THEN Invalid("Transaction failed")
       ELSE IF TransferredAmount(ledger[h].input) < PriceOf(req[r].route)
            THEN Invalid("Insufficient payment")
       ELSE Valid(ledger[h].from)

\* C30: a verify whose ledger calls were answered ends with the first outcome
\* that applies in the order MissingHash, AlreadyUsed, NotFound, Failed,
\* AmountInsufficient, and else with Valid and the receipt's sender as payer.
C30_VerifyDecisionOrder ==
    \A r \in Reqs :
        (VerifyEnded(r) /\ ~req[r].rpcFailed) => req[r].vres = OutcomeInOrder(r)

\* the AccountId argument of a Token::transfer calldata: the 16 bytes after
\* the selector, little-endian
RecipientOf(input) == LeValue(SubSeq(input, 5, 20))

\* C31: verify returns Valid only for a transaction whose transfer pays at
\* least the required amount to the account of requirement.payTo.
C31_RecipientValidated ==
    \A r \in Reqs :
        (VerifyEnded(r) /\ req[r].vres.isValid) =>
            /\ TransferredAmount(ledger[req[r].txHash].input) >= PriceOf(req[r].route)
            /\ RecipientOf(ledger[req[r].txHash].input) = TreasuryId

\* C32: when initialize() has returned, every agent in the pool has a
\* funding transfer that the ledger executed successfully.
C32_FundingConfirmed ==
    pool.initPc = "initialized" =>
        \A k \in 1..Len(pool.agents) :
            \E j \in TransfersTo(pool.agents[k]) : faucetTxs[j].status = "success"

\* the events of the given types among those emitted so far
EmittedOf(types) == {i \in 1..Len(eventLog) : eventLog[i].type \in types}

\* C33: the dashboard's persistent counters have counted every delivered
\* event once: totalRequests is the number of request_served, payment_failed
\* and error events delivered, successfulRequests the number of
\* request_served events, failedRequests the number of the others.
C33_EveryEventCountedOnce ==
    /\ dash.c.totalRequests =
          Cardinality(EmittedOf({"request_served", "payment_failed", "error"}))
    /\ dash.c.successfulRequests = Cardinality(EmittedOf({"request_served"}))
    /\ dash.c.failedRequests = Cardinality(EmittedOf({"payment_failed", "error"}))

\* C34: after every recorded result the collector holds at most 10000
\* latencies, and a result recorded on a full buffer leaves the most recent
\* 5000 (the last 4999 and the new one); after every event the dashboard
\* holds at most 2000 latencies, a latency pushed on a full buffer drops the
\* oldest one, and latencySum is the sum of the latencies held.
C34_LatencyBuffersBounded ==
    [][ /\ Len(collector'.latencies) <= LatenciesCap
        /\ (Len(collector.latencies) = LatenciesCap /\ collector' # collector) =>
              /\ Len(collector'.latencies) = LatenciesKept
              /\ SubSeq(collector'.latencies, 1, LatenciesKept - 1) =
                    SubSeq(collector.latencies, LatenciesCap - LatenciesKept + 2,
                           LatenciesCap)
        /\ Len(dash'.c.latencies) <= MAX_LATENCY_SAMPLES
        /\ dash'.c.latencySum = SumSeq(dash'.c.latencies)
        /\ ( /\ Len(dash.c.latencies) = MAX_LATENCY_SAMPLES
             /\ dash'.c.latencies # dash.c.latencies ) =>
              /\ Len(dash'.c.latencies) = MAX_LATENCY_SAMPLES
              /\ SubSeq(dash'.c.latencies, 1, MAX_LATENCY_SAMPLES - 1) =
                    Tail(dash.c.latencies) ]_vars

\* the collector was cut to 5000 by a latency of 7 and the dashboard's full
\* buffer took a latency of 7
C34_Witness ==
    /\ Len(collector.latencies) = LatenciesKept
    /\ collector.latencies[LatenciesKept] = 7
    /\ pool.metrics[0].totalRequests = LatenciesCap + 1
    /\ Len(dash.c.latencies) = MAX_LATENCY_SAMPLES
    /\ dash.c.latencies[MAX_LATENCY_SAMPLES] = 7
    /\ dash.c.totalRequests = MAX_LATENCY_SAMPLES + 1

C36_SnapshotThenLive ==
    [][\A s \in Subscribers :
         /\ (s \notin bus.connections /\ s \in bus'.connections /\ Len(eventLog) > 0) =>
               bus'.sent[s] = <<[type |-> "history", events |-> eventLog]>>
         /\ (s \in bus.connections /\ s \in bus'.connections /\ eventLog' # eventLog) =>
               bus'.sent[s] = Append(bus.sent[s], eventLog'[Len(eventLog')])]_vars

\* C37: in the dashboard's counters totalRequests is successfulRequests
\* plus failedRequests, for the pool and for every agent, and each pool
\* counter is the sum of the agents' counters.
C37_CountersAddUp ==
    LET c == dash.c
        sums == SumAgents(c.agents, DOMAIN c.agents)
    IN /\ c.totalRequests = c.successfulRequests + c.failedRequests
       /\ \A id \in DOMAIN c.agents :
             c.agents[id].totalRequests =
                 c.agents[id].successfulRequests + c.agents[id].failedRequests
       /\ c.totalRequests = sums.totalRequests
       /\ c.successfulRequests = sums.successfulRequests
       /\ c.failedRequests = sums.failedRequests

\* C38: each emitted event raises the getMetrics counter of its type by
\* one and leaves the other three as they were, so that the counters are
\* the numbers of events emitted so far and never decrease.
C38_MetricsCountEmitted ==
    [][eventLog' # eventLog =>
         LET type == eventLog'[Len(eventLog')].type
             plus(t) == IF type = t THEN 1 ELSE 0
         IN /\ getMetrics(eventLog').totalPayments =
                  getMetrics(eventLog).totalPayments + plus("payment_submitted")
            /\ getMetrics(eventLog').successfulPayments =
                  getMetrics(eventLog).successfulPayments + plus("payment_confirmed")
            /\ getMetrics(eventLog').failedPayments =
                  getMetrics(eventLog).failedPayments + plus("payment_failed")
            /\ getMetrics(eventLog').totalRequests =
                  getMetrics(eventLog).totalRequests + plus("request_served")]_vars

\* C39: with the counter set and never resynchronised, whatever claimed
\* nonces were rolled back, a worker that enters sendTransaction never
\* claims a nonce that another worker has claimed and whose transaction the
\* node accepted.
C39_NoReclaimAfterRollback ==
    [][\A w \in Workers :
         (wk[w].pc = "idle" /\ wk'[w].pc = "awaitSend" /\ ~resynced) =>
             \A v \in Workers \ {w} :
                 ~(wk[v].hash = <<wk'[w].nonce>> /\ wk[v].msg = "")]_vars

\* C40: every entry added to txAgentMap is eventually removed.
C40_EveryEntrySwept ==
    \A h \in Hashes : (h \in DOMAIN txAgentMap) ~> (h \notin DOMAIN txAgentMap)

====
